---------------------------- MODULE Spec2Model ----------------------------
(***************************************************************************)
(* The USDA composition engine of usd_viewer: the line-oriented text       *)
(* parser (parseUsda) and the reference/payload resolver                   *)
(* (parseAndResolve), the latter run as a step machine whose call stack    *)
(* is explicit.                                                            *)
(*                                                                         *)
(* Conventions.  A JavaScript string is a sequence of one-character        *)
(* strings; an index is 1-based here and 0-based in the source.  An        *)
(* optional field is <<>> when undefined and <<v>> when it holds v.  An    *)
(* array field that every reader takes through `?.` or `|| []`             *)
(* (references, payloads, resolvedChildren) is a sequence, empty when the  *)
(* source leaves it undefined.  A number is an exact decimal [nan, m, e]   *)
(* standing for m * 10^-e (IEEE rounding is not modelled).                 *)
(***************************************************************************)
EXTENDS Integers, Sequences, FiniteSets, TLC

----------------------------------------------------------------------------
(* JavaScript strings *)

Undefined == <<>>
Some(v)   == <<v>>

\* \s of a JavaScript regular expression, and the characters trim() removes
WhiteSpace == {" ", "\t", "\n", "\r"}
Lower == {"a","b","c","d","e","f","g","h","i","j","k","l","m",
          "n","o","p","q","r","s","t","u","v","w","x","y","z"}
Upper == {"A","B","C","D","E","F","G","H","I","J","K","L","M",
          "N","O","P","Q","R","S","T","U","V","W","X","Y","Z"}
Digit == {"0","1","2","3","4","5","6","7","8","9"}
\* \w
WordChar == Lower \cup Upper \cup Digit \cup {"_"}

RECURSIVE Concat(_)
\* the concatenation of a sequence of sequences
Concat(ss) == IF ss = <<>> THEN <<>> ELSE Head(ss) \o Concat(Tail(ss))

\* String.prototype.includes, for a one-character needle
Includes(s, ch) == \E i \in 1..Len(s) : s[i] = ch

\* String.prototype.startsWith, for a one-character prefix
StartsWith(s, ch) == Len(s) >= 1 /\ s[1] = ch

RECURSIVE LeadingWs(_, _)
\* the number of whitespace characters s starts with, counted from index i
LeadingWs(s, i) == IF i <= Len(s) /\ s[i] \in WhiteSpace THEN 1 + LeadingWs(s, i + 1) ELSE 0

RECURSIVE TrailingWs(_, _)
TrailingWs(s, i) == IF i >= 1 /\ s[i] \in WhiteSpace THEN 1 + TrailingWs(s, i - 1) ELSE 0

\* String.prototype.trimStart
TrimStart(s) == SubSeq(s, LeadingWs(s, 1) + 1, Len(s))

\* String.prototype.trimEnd
TrimEnd(s) == SubSeq(s, 1, Len(s) - TrailingWs(s, Len(s)))

\* String.prototype.trim
Trim(s) == TrimEnd(TrimStart(s))

\* String.prototype.split, for a one-character separator
Split(s, sep) ==
    LET at     == {i \in 1..Len(s) : s[i] = sep}
        \* the index of the n-th separator; 0 before the first, Len(s) + 1 after the last
        nth(n) == IF n = 0 THEN 0
                  ELSE IF n > Cardinality(at) THEN Len(s) + 1
                  ELSE CHOOSE i \in at : Cardinality({j \in at : j < i}) = n - 1
    IN [n \in 1..(Cardinality(at) + 1) |-> SubSeq(s, nth(n - 1) + 1, nth(n) - 1)]

\* String.prototype.replace(/\n/g, ' ')
ReplaceNewlines(s) == [i \in 1..Len(s) |-> IF s[i] = "\n" THEN " " ELSE s[i]]

\* String.prototype.lastIndexOf, for a one-character needle: 0-based, -1 when absent
LastIndexOf(s, ch) ==
    LET at == {i \in 1..Len(s) : s[i] = ch}
    IN IF at = {} THEN -1 ELSE (CHOOSE i \in at : \A j \in at : j <= i) - 1

RECURSIVE Join(_, _)
\* Array.prototype.join
Join(ss, sep) ==
    IF ss = <<>> THEN <<>>
    ELSE IF Len(ss) = 1 THEN ss[1]
    ELSE ss[1] \o sep \o Join(Tail(ss), sep)

\* Array.prototype.filter(Boolean) on strings: the empty string is falsy
RECURSIVE FilterNonEmpty(_)
FilterNonEmpty(ss) ==
    IF ss = <<>> THEN <<>>
    ELSE (IF Head(ss) = <<>> THEN <<>> ELSE <<Head(ss)>>) \o FilterNonEmpty(Tail(ss))

----------------------------------------------------------------------------
(* Numbers *)

NaN == [nan |-> TRUE, m |-> 0, e |-> 0]

RECURSIVE Normalize(_)
\* one representation per value: no trailing zero in the fraction
Normalize(n) ==
    IF n.e > 0 /\ n.m % 10 = 0 THEN Normalize([n EXCEPT !.m = n.m \div 10, !.e = n.e - 1]) ELSE n

DigitValue(ch) == CHOOSE d \in 0..9 : <<"0","1","2","3","4","5","6","7","8","9">>[d + 1] = ch

\* the length of the run of decimal digits of s from index i
DigitRun(s, i) ==
    Cardinality({n \in 1..(Len(s) - i + 1) : \A k \in i..(i + n - 1) : s[k] \in Digit})

RECURSIVE DigitsValue(_, _)
DigitsValue(s, acc) == IF s = <<>> THEN acc ELSE DigitsValue(Tail(s), 10 * acc + DigitValue(Head(s)))

\* the number whose decimal literal has the sign neg, the nInt digits s
\* starts with and the nFrac digits after the point that follows them
Decimal(neg, s, nInt, nFrac) ==
    IF nInt + nFrac = 0 THEN NaN
    ELSE Normalize([nan |-> FALSE,
                    m   |-> (IF neg THEN -1 ELSE 1)
                            * DigitsValue(SubSeq(s, 1, nInt) \o SubSeq(s, nInt + 2, nInt + 1 + nFrac), 0),
                    e   |-> nFrac])

Fraction(neg, s, nInt) ==
    Decimal(neg, s, nInt,
            IF nInt < Len(s) /\ s[nInt + 1] = "." THEN DigitRun(s, nInt + 2) ELSE 0)

Unsigned(neg, s) == Fraction(neg, s, DigitRun(s, 1))

Signed(s) ==
    IF s # <<>> /\ s[1] \in {"-", "+"} THEN Unsigned(s[1] = "-", Tail(s)) ELSE Unsigned(FALSE, s)

\* The global parseFloat: leading whitespace is skipped and the longest prefix
\* that is a decimal literal (sign, digits, '.', digits) is converted; NaN when
\* there is none.  Exponents and Infinity cannot occur in the text the
\* parser's patterns capture ([\d.-]+).
parseFloat(str) == Signed(TrimStart(str))

\* THREE.MathUtils.degToRad: degrees * (pi / 180).  The factor is irrational,
\* so the product is kept symbolically, as the radians of n degrees.
degToRad(n) == [radiansOfDegrees |-> n]

----------------------------------------------------------------------------
(* JavaScript regular expressions.  A pattern is a tree; Rx gives every way *)
(* the pattern matches s from index i as a sequence in the backtracking     *)
(* order of the engine, so that its head is the match the engine reports.   *)
(* Every repetition in the program's patterns is of a character class.      *)

Cls(cs)   == [k |-> "cls", cs |-> cs, neg |-> FALSE]
NCls(cs)  == [k |-> "cls", cs |-> cs, neg |-> TRUE]
Cat(es)   == [k |-> "cat", es |-> es]
Alt(es)   == [k |-> "alt", es |-> es]
Star(e)   == [k |-> "star", e |-> e, min |-> 0]
Plus(e)   == [k |-> "star", e |-> e, min |-> 1]
Opt(e)    == [k |-> "opt", e |-> e]
Grp(n, e) == [k |-> "grp", n |-> n, e |-> e]
Bol       == [k |-> "bol"]
Eol       == [k |-> "eol"]
Lit(str)  == [k |-> "lit", str |-> str]
Ws0       == Star(Cls(WhiteSpace))
Ws1       == Plus(Cls(WhiteSpace))

InClass(e, ch) == (ch \in e.cs) # e.neg

\* the length of the run of characters of class e that s holds from index i
RunLength(e, s, i) ==
    LET stops == {k \in i..Len(s) : ~InClass(e, s[k])}
    IN IF stops = {} THEN Len(s) - i + 1
       ELSE (CHOOSE k \in stops : \A j \in stops : k <= j) - i

RECURSIVE Flatten(_, _, _)
\* the concatenation of the sequences parts[lo], ..., parts[hi]
Flatten(parts, lo, hi) ==
    IF lo > hi THEN <<>>
    ELSE IF lo = hi THEN parts[lo]
    ELSE LET mid == (lo + hi) \div 2
         IN Flatten(parts, lo, mid) \o Flatten(parts, mid + 1, hi)

RECURSIVE Rx(_, _, _, _), RxCat(_, _, _, _), RxAlt(_, _, _, _, _)

Rx(e, s, i, c) ==
    CASE e.k = "cls" ->
            IF i <= Len(s) /\ InClass(e, s[i]) THEN <<[p |-> i + 1, c |-> c]>> ELSE <<>>
      [] e.k = "lit" ->
            IF i + Len(e.str) - 1 <= Len(s) /\ SubSeq(s, i, i + Len(e.str) - 1) = e.str
            THEN <<[p |-> i + Len(e.str), c |-> c]>> ELSE <<>>
      [] e.k = "cat" -> RxCat(e.es, 1, s, <<[p |-> i, c |-> c]>>)
      [] e.k = "alt" -> RxAlt(e.es, 1, s, i, c)
      [] e.k = "star" ->
            \* greedy: the longest run first, then one character less at a time
            LET n == RunLength(e.e, s, i)
            IN [j \in 1..(n + 1 - e.min) |-> [p |-> i + n + 1 - j, c |-> c]]
      [] e.k = "opt" -> Rx(e.e, s, i, c) \o <<[p |-> i, c |-> c]>>
      [] e.k = "grp" ->
            LET r == Rx(e.e, s, i, c)
            IN [j \in 1..Len(r) |-> [p |-> r[j].p, c |-> [r[j].c EXCEPT ![e.n] = <<i, r[j].p>>]]]
      [] e.k = "bol" -> IF i = 1 THEN <<[p |-> i, c |-> c]>> ELSE <<>>
      [] e.k = "eol" -> IF i = Len(s) + 1 THEN <<[p |-> i, c |-> c]>> ELSE <<>>

\* every way to go on with es[n], es[n + 1], ... from the matches rs of
\* es[1..n-1], the ways from an earlier match first
RxCat(es, n, s, rs) ==
    IF n > Len(es) \/ rs = <<>> THEN rs
    ELSE RxCat(es, n + 1, s,
               Flatten([j \in 1..Len(rs) |-> Rx(es[n], s, rs[j].p, rs[j].c)], 1, Len(rs)))

RxAlt(es, n, s, i, c) ==
    IF n > Len(es) THEN <<>> ELSE Rx(es[n], s, i, c) \o RxAlt(es, n + 1, s, i, c)

NoCaptures == <<Undefined, Undefined, Undefined, Undefined>>

\* the leftmost index of s from which e matches, and the captures of the
\* match the engine finds there
Search(e, s) ==
    LET starts == {i \in 1..(Len(s) + 1) : Rx(e, s, i, NoCaptures) # <<>>}
        first  == CHOOSE i \in starts : \A j \in starts : i <= j
    IN IF starts = {} THEN <<>> ELSE <<Rx(e, s, first, NoCaptures)[1].c>>

\* String.prototype.match with a pattern without the g flag: <<>> for null,
\* else <<the capture groups' index ranges>> of the leftmost match
Match(e, s) == Search(e, s)

Matches(e, s) == Match(e, s) # <<>>

\* capture group n of a match m of s: Undefined, or Some(the captured text)
Group(s, m, n) ==
    IF m[1][n] = Undefined THEN Undefined ELSE Some(SubSeq(s, m[1][n][1], m[1][n][2] - 1))

----------------------------------------------------------------------------
(* The text parser *)

\* a ParsedPrim as parseUsda builds it
NewPrim(type, name, active, references, payloads) ==
    [type |-> type, name |-> name, active |-> active,
     radius |-> Undefined, radiusTimeSamples |-> Undefined,
     size |-> Undefined, sizeTimeSamples |-> Undefined,
     height |-> Undefined, heightTimeSamples |-> Undefined,
     color |-> Undefined, colorTimeSamples |-> Undefined,
     position |-> Undefined, positionTimeSamples |-> Undefined,
     rotation |-> Undefined, rotationTimeSamples |-> Undefined,
     scale |-> Undefined, scaleTimeSamples |-> Undefined,
     children |-> <<>>, references |-> references, payloads |-> payloads,
     resolvedChildren |-> <<>>]

\* Map.prototype.set on a Map kept as its entries in insertion order: an
\* existing key keeps its place and takes the new value
MapSet(map, key, value) ==
    IF \E j \in 1..Len(map) : map[j].key = key
    THEN [j \in 1..Len(map) |-> IF map[j].key = key THEN [key |-> key, value |-> value] ELSE map[j]]
    ELSE Append(map, [key |-> key, value |-> value])

NumberChars     == Digit \cup {".", "-"}
UnsignedChars   == Digit \cup {"."}
NumberTok       == Plus(Cls(NumberChars))
UnsignedTok     == Plus(Cls(UnsignedChars))

\* /^([\d.-]+)\s*:\s*([\d.-]+),?$/
ScalarSampleRe ==
    Cat(<<Bol, Grp(1, NumberTok), Ws0, Cls({":"}), Ws0, Grp(2, NumberTok), Opt(Cls({","})), Eol>>)

\* /^([\d.-]+)\s*:\s*\(\s*([\d.-]+)\s*,\s*([\d.-]+)\s*,\s*([\d.-]+)\s*\),?$/
Vector3SampleRe ==
    Cat(<<Bol, Grp(1, NumberTok), Ws0, Cls({":"}), Ws0, Cls({"("}), Ws0,
          Grp(2, NumberTok), Ws0, Cls({","}), Ws0, Grp(3, NumberTok), Ws0, Cls({","}), Ws0,
          Grp(4, NumberTok), Ws0, Cls({")"}), Opt(Cls({","})), Eol>>)

\* timeSamples.set(time, value) for a line the sample pattern matches with m
ScalarSample(samples, line, m) ==
    IF m # <<>>
    THEN MapSet(samples, parseFloat(Group(line, m, 1)[1]), parseFloat(Group(line, m, 2)[1]))
    ELSE samples

RECURSIVE ScalarSamplesFrom(_, _, _)

\* the loop's step on the trimmed line i: a closing brace ends the block
ScalarSamplesAt(lines, i, samples, line) ==
    IF line = <<"}">> THEN [samples |-> samples, endIndex |-> i]
    ELSE ScalarSamplesFrom(lines, i + 1, ScalarSample(samples, line, Match(ScalarSampleRe, line)))

ScalarSamplesFrom(lines, i, samples) ==
    IF i > Len(lines) THEN [samples |-> samples, endIndex |-> i]
    ELSE ScalarSamplesAt(lines, i, samples, Trim(lines[i]))

\* parseTimeSamplesScalar: the samples of the block whose body starts at line
\* startIndex, and the index of the line that ends it
parseTimeSamplesScalar(content, startIndex) ==
    ScalarSamplesFrom(Split(content, "\n"), startIndex, <<>>)

Radians(v) == <<degToRad(v[1]), degToRad(v[2]), degToRad(v[3])>>

Vector3Sample(samples, line, m, convertToRadians) ==
    IF m # <<>>
    THEN MapSet(samples, parseFloat(Group(line, m, 1)[1]),
                IF convertToRadians
                THEN Radians(<<parseFloat(Group(line, m, 2)[1]), parseFloat(Group(line, m, 3)[1]),
                               parseFloat(Group(line, m, 4)[1])>>)
                ELSE <<parseFloat(Group(line, m, 2)[1]), parseFloat(Group(line, m, 3)[1]),
                       parseFloat(Group(line, m, 4)[1])>>)
    ELSE samples

RECURSIVE Vector3SamplesFrom(_, _, _, _)

Vector3SamplesAt(lines, i, convertToRadians, samples, line) ==
    IF line = <<"}">> THEN [samples |-> samples, endIndex |-> i]
    ELSE Vector3SamplesFrom(lines, i + 1, convertToRadians,
             Vector3Sample(samples, line, Match(Vector3SampleRe, line), convertToRadians))

Vector3SamplesFrom(lines, i, convertToRadians, samples) ==
    IF i > Len(lines) THEN [samples |-> samples, endIndex |-> i]
    ELSE Vector3SamplesAt(lines, i, convertToRadians, samples, Trim(lines[i]))

parseTimeSamplesVector3(content, startIndex, convertToRadians) ==
    Vector3SamplesFrom(Split(content, "\n"), startIndex, convertToRadians, <<>>)

\* /@([^@]+)@(?:<([^>]+)>)?/
AssetRe ==
    Cat(<<Cls({"@"}), Grp(1, Plus(NCls({"@"}))), Cls({"@"}),
          Opt(Cat(<<Cls({"<"}), Grp(2, Plus(NCls({">"}))), Cls({">"})>>))>>)

\* the UsdReference of a match m of the asset pattern, or Undefined for null
AssetOf(metadata, m) ==
    IF m # <<>>
    THEN Some([assetPath |-> Group(metadata, m, 1)[1], primPath |-> Group(metadata, m, 2)])
    ELSE Undefined

\* parseAssetReference: Undefined for null, else Some(UsdReference)
parseAssetReference(metadata) == AssetOf(metadata, Match(AssetRe, metadata))

\* /^def\s+(?:(\w+)\s+)?"([^"]+)"(?:\s*\(([^)]*)\))?/
DefRe ==
    Cat(<<Bol, Lit(<<"d","e","f">>), Ws1, Opt(Cat(<<Grp(1, Plus(Cls(WordChar))), Ws1>>)),
          Cls({"\""}), Grp(2, Plus(NCls({"\""}))), Cls({"\""}),
          Opt(Cat(<<Ws0, Cls({"("}), Grp(3, Star(NCls({")"}))), Cls({")"})>>))>>)

\* /^def\s+(?:(\w+)\s+)?"([^"]+)"\s*\(/
DefStartRe ==
    Cat(<<Bol, Lit(<<"d","e","f">>), Ws1, Opt(Cat(<<Grp(1, Plus(Cls(WordChar))), Ws1>>)),
          Cls({"\""}), Grp(2, Plus(NCls({"\""}))), Cls({"\""}), Ws0, Cls({"("})>>)

\* /active\s*=\s*(true|false)/
ActiveRe ==
    Cat(<<Lit(<<"a","c","t","i","v","e">>), Ws0, Cls({"="}), Ws0, Grp(1, Alt(<<Lit(<<"t","r","u","e">>), Lit(<<"f","a","l","s","e">>)>>))>>)

\* @[^@]+@(?:<[^>]+>)?
AssetTok ==
    Cat(<<Cls({"@"}), Plus(NCls({"@"})), Cls({"@"}),
          Opt(Cat(<<Cls({"<"}), Plus(NCls({">"})), Cls({">"})>>))>>)

\* /references\s*=\s*(@[^@]+@(?:<[^>]+>)?)/
ReferencesRe == Cat(<<Lit(<<"r","e","f","e","r","e","n","c","e","s">>), Ws0, Cls({"="}), Ws0, Grp(1, AssetTok)>>)

\* /payload\s*=\s*(@[^@]+@(?:<[^>]+>)?)/
PayloadRe == Cat(<<Lit(<<"p","a","y","l","o","a","d">>), Ws0, Cls({"="}), Ws0, Grp(1, AssetTok)>>)

\* AssetField as it would be if the asset that follows the first one were
\* kept as a second entry: the variant C26 must reject.
AssetFieldWithTheNext(metadata, m) ==
    IF m # <<>>
    THEN parseAssetReference(Group(metadata, m, 1)[1])
         \o parseAssetReference(SubSeq(metadata, m[1][1][2], Len(metadata)))
    ELSE Undefined

\* the one-element array of the asset of a match m of a references or
\* payload pattern, or the field left undefined
AssetField(metadata, m) ==
    IF m # <<>> THEN parseAssetReference(Group(metadata, m, 1)[1]) ELSE Undefined

\* result.active of a match m of the active pattern
ActiveField(metadata, m) ==
    IF m # <<>> THEN Some(Group(metadata, m, 1)[1] = <<"t","r","u","e">>) ELSE Undefined

\* the declaration of a match of the def pattern whose metadata clause is
\* metadata: Undefined when there is none, and `if (metadata)` is false for
\* an empty clause too
DefInfo(primType, primName, metadata) ==
    IF metadata # Undefined /\ metadata[1] # <<>>
    THEN [type |-> primType, name |-> primName,
          active     |-> ActiveField(metadata[1], Match(ActiveRe, metadata[1])),
          references |-> AssetField(metadata[1], Match(ReferencesRe, metadata[1])),
          payloads   |-> AssetField(metadata[1], Match(PayloadRe, metadata[1]))]
    ELSE [type |-> primType, name |-> primName,
          active |-> Undefined, references |-> Undefined, payloads |-> Undefined]

\* DefOf as it would be if the metadata clause of a declaration were not
\* read: the variant C9 must reject.
DefOfWithoutMetadata(line, defMatch) ==
    IF defMatch = <<>> THEN Undefined
    ELSE Some(DefInfo(IF Group(line, defMatch, 1) = Undefined THEN <<"X","f","o","r","m">>
                      ELSE Group(line, defMatch, 1)[1],
                      Group(line, defMatch, 2)[1], Undefined))

\* the declaration of a match of the def pattern on a line: the type is
\* 'Xform' when the line names none
DefOf(line, defMatch) ==
    IF defMatch = <<>> THEN Undefined
    ELSE Some(DefInfo(IF Group(line, defMatch, 1) = Undefined THEN <<"X","f","o","r","m">>
                      ELSE Group(line, defMatch, 1)[1],
                      Group(line, defMatch, 2)[1], Group(line, defMatch, 3)))

\* parseDefStatement: Undefined for null, else Some of the declaration's
\* type, name, active flag, references and payloads
parseDefStatement(line) == DefOf(line, Match(DefRe, line))

\* the change of the parenthesis depth over one line
ParenDelta(line) ==
    Cardinality({i \in 1..Len(line) : line[i] = "("})
    - Cardinality({i \in 1..Len(line) : line[i] = ")"})

RECURSIVE MultilineFrom(_, _, _, _)
MultilineFrom(lines, i, parenDepth, metadata) ==
    IF i > Len(lines) THEN [metadata |-> metadata, endIndex |-> i]
    ELSE IF parenDepth + ParenDelta(lines[i]) = 0
    THEN [metadata |-> metadata \o lines[i] \o <<"\n">>, endIndex |-> i]
    ELSE MultilineFrom(lines, i + 1, parenDepth + ParenDelta(lines[i]),
                       metadata \o lines[i] \o <<"\n">>)

\* parseMultilineMetadata: the lines from startIndex joined until the
\* parenthesis depth is back at zero, and the index of the last line taken
parseMultilineMetadata(lines, startIndex) == MultilineFrom(lines, startIndex, 0, <<>>)

\* (?:double|float)
FloatType == Alt(<<Lit(<<"d","o","u","b","l","e">>), Lit(<<"f","l","o","a","t">>)>>)

\* /(?:double|float)\s+radius\.timeSamples\s*=\s*\{/
RadiusTimeSamplesRe ==
    Cat(<<FloatType, Ws1, Lit(<<"r","a","d","i","u","s",".","t","i","m","e","S","a","m","p","l","e","s">>), Ws0, Cls({"="}), Ws0, Cls({"{"})>>)
\* /(?:double|float)\s+radius\s*=\s*([\d.]+)/
RadiusRe == Cat(<<FloatType, Ws1, Lit(<<"r","a","d","i","u","s">>), Ws0, Cls({"="}), Ws0, Grp(1, UnsignedTok)>>)
\* /(?:double|float)\s+size\.timeSamples\s*=\s*\{/
SizeTimeSamplesRe ==
    Cat(<<FloatType, Ws1, Lit(<<"s","i","z","e",".","t","i","m","e","S","a","m","p","l","e","s">>), Ws0, Cls({"="}), Ws0, Cls({"{"})>>)
\* /(?:double|float)\s+size\s*=\s*([\d.]+)/
SizeRe == Cat(<<FloatType, Ws1, Lit(<<"s","i","z","e">>), Ws0, Cls({"="}), Ws0, Grp(1, UnsignedTok)>>)
\* /(?:double|float)\s+height\.timeSamples\s*=\s*\{/
HeightTimeSamplesRe ==
    Cat(<<FloatType, Ws1, Lit(<<"h","e","i","g","h","t",".","t","i","m","e","S","a","m","p","l","e","s">>), Ws0, Cls({"="}), Ws0, Cls({"{"})>>)
\* /(?:double|float)\s+height\s*=\s*([\d.]+)/
HeightRe == Cat(<<FloatType, Ws1, Lit(<<"h","e","i","g","h","t">>), Ws0, Cls({"="}), Ws0, Grp(1, UnsignedTok)>>)

\* \(\s*(tok)\s*,\s*(tok)\s*,\s*(tok)\s*\) with the groups numbered 1 to 3
Triple(tok) ==
    Cat(<<Cls({"("}), Ws0, Grp(1, tok), Ws0, Cls({","}), Ws0, Grp(2, tok), Ws0, Cls({","}), Ws0,
          Grp(3, tok), Ws0, Cls({")"})>>)

\* /color3f\[\]\s+primvars:displayColor\s*=\s*\[\s*\(\s*([\d.]+)\s*,\s*([\d.]+)\s*,\s*([\d.]+)\s*\)\s*\]/
ColorRe ==
    Cat(<<Lit(<<"c","o","l","o","r","3","f","[","]">>), Ws1, Lit(<<"p","r","i","m","v","a","r","s",":","d","i","s","p","l","a","y","C","o","l","o","r">>), Ws0, Cls({"="}), Ws0,
          Cls({"["}), Ws0, Triple(UnsignedTok), Ws0, Cls({"]"})>>)

\* /double3\s+xformOp:translate\.timeSamples\s*=\s*\{/
TranslateTimeSamplesRe ==
    Cat(<<Lit(<<"d","o","u","b","l","e","3">>), Ws1, Lit(<<"x","f","o","r","m","O","p",":","t","r","a","n","s","l","a","t","e",".","t","i","m","e","S","a","m","p","l","e","s">>), Ws0, Cls({"="}), Ws0,
          Cls({"{"})>>)
\* /double3\s+xformOp:translate\s*=\s*\(\s*([\d.-]+)\s*,\s*([\d.-]+)\s*,\s*([\d.-]+)\s*\)/
TranslateRe ==
    Cat(<<Lit(<<"d","o","u","b","l","e","3">>), Ws1, Lit(<<"x","f","o","r","m","O","p",":","t","r","a","n","s","l","a","t","e">>), Ws0, Cls({"="}), Ws0, Triple(NumberTok)>>)
\* /float3\s+xformOp:rotateXYZ\.timeSamples\s*=\s*\{/
RotateTimeSamplesRe ==
    Cat(<<Lit(<<"f","l","o","a","t","3">>), Ws1, Lit(<<"x","f","o","r","m","O","p",":","r","o","t","a","t","e","X","Y","Z",".","t","i","m","e","S","a","m","p","l","e","s">>), Ws0, Cls({"="}), Ws0,
          Cls({"{"})>>)
\* /float3\s+xformOp:rotateXYZ\s*=\s*\(\s*([\d.-]+)\s*,\s*([\d.-]+)\s*,\s*([\d.-]+)\s*\)/
RotateRe ==
    Cat(<<Lit(<<"f","l","o","a","t","3">>), Ws1, Lit(<<"x","f","o","r","m","O","p",":","r","o","t","a","t","e","X","Y","Z">>), Ws0, Cls({"="}), Ws0, Triple(NumberTok)>>)
\* /float3\s+xformOp:scale\.timeSamples\s*=\s*\{/
ScaleTimeSamplesRe ==
    Cat(<<Lit(<<"f","l","o","a","t","3">>), Ws1, Lit(<<"x","f","o","r","m","O","p",":","s","c","a","l","e",".","t","i","m","e","S","a","m","p","l","e","s">>), Ws0, Cls({"="}), Ws0,
          Cls({"{"})>>)
\* /float3\s+xformOp:scale\s*=\s*\(\s*([\d.-]+)\s*,\s*([\d.-]+)\s*,\s*([\d.-]+)\s*\)/
ScaleRe ==
    Cat(<<Lit(<<"f","l","o","a","t","3">>), Ws1, Lit(<<"x","f","o","r","m","O","p",":","s","c","a","l","e">>), Ws0, Cls({"="}), Ws0, Triple(NumberTok)>>)

\* the three captured numbers of a match of a Triple pattern
Floats3(s, m) ==
    <<parseFloat(Group(s, m, 1)[1]), parseFloat(Group(s, m, 2)[1]), parseFloat(Group(s, m, 3)[1])>>

\* the first captured number of a match
Float1(s, m) == parseFloat(Group(s, m, 1)[1])

\* The attribute part of one iteration of parseUsda's loop works on a record
\* a: a.prim is the prim on top of the stack as the tests so far leave it, and
\* a.next is 0 while the iteration goes on, or the index of the line the loop
\* takes next once a timeSamples block has ended the iteration (continue).  A
\* static attribute falls through to the tests that follow it.

\* TakeBlock as it would be if the loop went on with the line after the
\* opening line: the variant C21 must reject.
TakeBlockKeepsCursor(a, field, ts) ==
    [prim |-> [a.prim EXCEPT ![field] = Some(ts.samples)], next |-> 0]

\* currentPrim.<field> = samples; i = endIndex; continue
TakeBlock(a, field, ts) ==
    [prim |-> [a.prim EXCEPT ![field] = Some(ts.samples)], next |-> ts.endIndex + 1]

\* if (match) currentPrim.<field> = parseFloat(match[1])
TakeFloat(a, field, trimmed, m) ==
    IF m # <<>> THEN [a EXCEPT !.prim[field] = Some(Float1(trimmed, m))] ELSE a

\* if (match) currentPrim.<field> = [parseFloat(match[1]), ..., parseFloat(match[3])]
TakeFloats(a, field, trimmed, m) ==
    IF m # <<>> THEN [a EXCEPT !.prim[field] = Some(Floats3(trimmed, m))] ELSE a

\* as TakeFloats, with every component converted by degToRad
TakeDegrees(a, field, trimmed, m) ==
    IF m # <<>> THEN [a EXCEPT !.prim[field] = Some(Radians(Floats3(trimmed, m)))] ELSE a

RadiusAttr(a, trimmed, content, i) ==
    IF a.next # 0 THEN a
    ELSE IF Matches(RadiusTimeSamplesRe, trimmed)
    THEN TakeBlock(a, "radiusTimeSamples", parseTimeSamplesScalar(content, i + 1))
    ELSE TakeFloat(a, "radius", trimmed, Match(RadiusRe, trimmed))

SizeAttr(a, trimmed, content, i) ==
    IF a.next # 0 THEN a
    ELSE IF Matches(SizeTimeSamplesRe, trimmed)
    THEN TakeBlock(a, "sizeTimeSamples", parseTimeSamplesScalar(content, i + 1))
    ELSE TakeFloat(a, "size", trimmed, Match(SizeRe, trimmed))

HeightAttr(a, trimmed, content, i) ==
    IF a.next # 0 THEN a
    ELSE IF Matches(HeightTimeSamplesRe, trimmed)
    THEN TakeBlock(a, "heightTimeSamples", parseTimeSamplesScalar(content, i + 1))
    ELSE TakeFloat(a, "height", trimmed, Match(HeightRe, trimmed))

ColorAttr(a, trimmed) ==
    IF a.next # 0 THEN a ELSE TakeFloats(a, "color", trimmed, Match(ColorRe, trimmed))

TranslateAttr(a, trimmed, content, i) ==
    IF a.next # 0 THEN a
    ELSE IF Matches(TranslateTimeSamplesRe, trimmed)
    THEN TakeBlock(a, "positionTimeSamples", parseTimeSamplesVector3(content, i + 1, FALSE))
    ELSE TakeFloats(a, "position", trimmed, Match(TranslateRe, trimmed))

RotateAttr(a, trimmed, content, i) ==
    IF a.next # 0 THEN a
    ELSE IF Matches(RotateTimeSamplesRe, trimmed)
    THEN TakeBlock(a, "rotationTimeSamples", parseTimeSamplesVector3(content, i + 1, TRUE))
    ELSE TakeDegrees(a, "rotation", trimmed, Match(RotateRe, trimmed))

ScaleAttr(a, trimmed, content, i) ==
    IF a.next # 0 THEN a
    ELSE IF Matches(ScaleTimeSamplesRe, trimmed)
    THEN TakeBlock(a, "scaleTimeSamples", parseTimeSamplesVector3(content, i + 1, FALSE))
    ELSE TakeFloats(a, "scale", trimmed, Match(ScaleRe, trimmed))

\* the line after line i is next unless a timeSamples block moved the loop
EndAttributes(a, i) == [prim |-> a.prim, next |-> IF a.next = 0 THEN i + 1 ELSE a.next]

\* the tests in the order of the source
ParseAttributes(prim, trimmed, content, i) ==
    EndAttributes(
        ScaleAttr(RotateAttr(TranslateAttr(ColorAttr(HeightAttr(SizeAttr(RadiusAttr(
            [prim |-> prim, next |-> 0],
            trimmed, content, i), trimmed, content, i), trimmed, content, i), trimmed),
            trimmed, content, i), trimmed, content, i), trimmed, content, i),
        i)

RECURSIVE GetPrim(_, _)
\* the prim at position at of a forest: at[1] indexes the roots and every
\* further element the children of the prim before it
GetPrim(prims, at) ==
    IF Len(at) = 1 THEN prims[at[1]] ELSE GetPrim(prims[at[1]].children, Tail(at))

RECURSIVE SetPrim(_, _, _)
\* the forest with the prim at position at replaced by prim
SetPrim(prims, at, prim) ==
    IF Len(at) = 1 THEN [prims EXCEPT ![at[1]] = prim]
    ELSE [prims EXCEPT ![at[1]].children = SetPrim(@, Tail(at), prim)]

RECURSIVE PopStackOfDeeper(_, _)
\* PopStack as it would be if only the entries with a greater indentation
\* were popped: the variant C14 must reject.
PopStackOfDeeper(stack, indent) ==
    IF stack # <<>> /\ stack[Len(stack)].indent > indent
    THEN PopStackOfDeeper(SubSeq(stack, 1, Len(stack) - 1), indent)
    ELSE stack

RECURSIVE PopStack(_, _)
\* while (stack.length > 0 && stack[stack.length - 1].indent >= indent) stack.pop()
PopStack(stack, indent) ==
    IF stack # <<>> /\ stack[Len(stack)].indent >= indent
    THEN PopStack(SubSeq(stack, 1, Len(stack) - 1), indent)
    ELSE stack

\* A recognized declaration: the new prim becomes the last child of the prim
\* on top of the popped stack (or the last root), and is pushed.  A stack
\* entry holds the position of its prim in the forest, where the source holds
\* a reference to the prim object.
Push(st, newPrim, stack, indent) ==
    IF stack # <<>>
    THEN [st EXCEPT !.prims = SetPrim(@, stack[Len(stack)].at,
                                      [GetPrim(st.prims, stack[Len(stack)].at)
                                          EXCEPT !.children = Append(@, newPrim)]),
                    !.stack = Append(stack,
                                     [at |-> Append(stack[Len(stack)].at,
                                                    Len(GetPrim(st.prims, stack[Len(stack)].at).children) + 1),
                                      indent |-> indent])]
    ELSE [st EXCEPT !.prims = Append(@, newPrim),
                    !.stack = Append(stack, [at |-> <<Len(st.prims) + 1>>, indent |-> indent])]

Declare(st, defInfo, indent) ==
    Push(st, NewPrim(defInfo.type, defInfo.name, defInfo.active, defInfo.references, defInfo.payloads),
         PopStack(st.stack, indent), indent)

\* `if (defInfo)` around the declaration
DeclareIf(st, defInfo, indent) ==
    IF defInfo # Undefined THEN Declare(st, defInfo[1], indent) ELSE st

\* the branch of a declaration whose metadata clause spans lines: the joined
\* clause is parsed, and the loop goes on after its last line either way
MultilineDef(st, indent, multi) ==
    [DeclareIf(st, parseDefStatement(ReplaceNewlines(multi.metadata)), indent)
        EXCEPT !.i = multi.endIndex + 1]

\* the attribute tests on the prim on top of the stack
Attributes(st, attrs) ==
    [st EXCEPT !.prims = SetPrim(@, st.stack[Len(st.stack)].at, attrs.prim), !.i = attrs.next]

\* SingleLine as it would be if a closing brace popped the stack: the
\* variant C22 must reject.
SingleLinePoppingAtBrace(st, content, trimmed, indent, defInfo) ==
    IF defInfo # Undefined THEN [Declare(st, defInfo[1], indent) EXCEPT !.i = st.i + 1]
    ELSE IF st.stack # <<>> /\ trimmed = <<"}">>
    THEN [st EXCEPT !.stack = SubSeq(@, 1, Len(@) - 1), !.i = st.i + 1]
    ELSE IF st.stack # <<>>
    THEN Attributes(st, ParseAttributes(GetPrim(st.prims, st.stack[Len(st.stack)].at),
                                        trimmed, content, st.i))
    ELSE [st EXCEPT !.i = st.i + 1]

\* the rest of an iteration, once the line is known not to open a multi-line clause
SingleLine(st, content, trimmed, indent, defInfo) ==
    IF defInfo # Undefined THEN [Declare(st, defInfo[1], indent) EXCEPT !.i = st.i + 1]
    ELSE IF st.stack # <<>>
    THEN Attributes(st, ParseAttributes(GetPrim(st.prims, st.stack[Len(st.stack)].at),
                                        trimmed, content, st.i))
    ELSE [st EXCEPT !.i = st.i + 1]

Iteration(st, content, lines, trimmed, indent) ==
    IF Matches(DefStartRe, trimmed) /\ ~Includes(trimmed, ")")
    THEN MultilineDef(st, indent, parseMultilineMetadata(lines, st.i))
    ELSE SingleLine(st, content, trimmed, indent, parseDefStatement(trimmed))

\* One iteration of parseUsda's loop over the lines: st.i is the index of the
\* line it reads, and the state it returns holds the index of the next one.
ParseLine(st, content, lines) ==
    Iteration(st, content, lines, TrimStart(lines[st.i]),
              Len(lines[st.i]) - Len(TrimStart(lines[st.i])))

RECURSIVE ParseLoop(_, _, _)
ParseLoop(st, content, lines) ==
    IF st.i > Len(lines) THEN st ELSE ParseLoop(ParseLine(st, content, lines), content, lines)

\* parseUsda on a string: the root prims of the text
parseUsda(content) ==
    ParseLoop([i |-> 1, prims |-> <<>>, stack |-> <<>>], content, Split(content, "\n")).prims

----------------------------------------------------------------------------
(* The reference resolver *)

RECURSIVE CollapseSegmentsKeepingParent(_, _)
\* CollapseSegments as it would be if '..' were dropped like '.', without
\* the pop: the variant C13 must reject.
CollapseSegmentsKeepingParent(segments, resolved) ==
    IF segments = <<>> THEN resolved
    ELSE CollapseSegmentsKeepingParent(Tail(segments),
            IF Head(segments) \notin {<<".",".">>, <<".">>} THEN Append(resolved, Head(segments))
            ELSE resolved)

RECURSIVE CollapseSegmentsKeepingClimb(_, _)
\* CollapseSegments as it would be if a '..' met with nothing to pop were
\* kept as a segment: the variant C27 must reject.
CollapseSegmentsKeepingClimb(segments, resolved) ==
    IF segments = <<>> THEN resolved
    ELSE CollapseSegmentsKeepingClimb(Tail(segments),
            IF Head(segments) = <<".",".">> /\ resolved # <<>> /\ resolved[Len(resolved)] # <<".",".">>
            THEN SubSeq(resolved, 1, Len(resolved) - 1)
            ELSE IF Head(segments) # <<".">> THEN Append(resolved, Head(segments))
            ELSE resolved)

RECURSIVE CollapseSegments(_, _)
\* the loop of resolveRelativePath over the segments: '..' pops (a pop of the
\* empty array does nothing), '.' is dropped, any other segment is pushed
CollapseSegments(segments, resolved) ==
    IF segments = <<>> THEN resolved
    ELSE CollapseSegments(Tail(segments),
            IF Head(segments) = <<".",".">>
            THEN SubSeq(resolved, 1, Len(resolved) - 1)
            ELSE IF Head(segments) # <<".">> THEN Append(resolved, Head(segments))
            ELSE resolved)

resolveRelativePath(basePath, relativePath) ==
    LET dir      == SubSeq(basePath, 1, LastIndexOf(basePath, "/") + 1)
        baseDir  == IF dir = <<>> THEN <<"/">> ELSE dir
        combined == baseDir \o relativePath
        segments == FilterNonEmpty(Split(combined, "/"))
    IN IF StartsWith(relativePath, "/") THEN relativePath
       ELSE <<"/">> \o Join(CollapseSegments(segments, <<>>), <<"/">>)

RECURSIVE FindSegmentsBacktracking(_, _, _)
\* FindSegments as it would be if the search went on with the next prim of
\* the name when the first lacks the rest of the path: the variant C24 must
\* reject.
FindSegmentsBacktracking(current, segments, i) ==
    LET hits == {j \in 1..Len(current) : current[j].name = segments[i]}
        good == {j \in hits : \/ i = Len(segments)
                              \/ FindSegmentsBacktracking(current[j].children, segments, i + 1) # Undefined}
        first == CHOOSE j \in good : \A h \in good : j <= h
    IN IF i > Len(segments) \/ good = {} THEN Undefined
       ELSE IF i = Len(segments) THEN Some(current[first])
       ELSE FindSegmentsBacktracking(current[first].children, segments, i + 1)

RECURSIVE FindSegments(_, _, _)
FindSegments(current, segments, i) ==
    LET hits  == {j \in 1..Len(current) : current[j].name = segments[i]}
        \* Array.prototype.find: the first element that matches
        found == current[CHOOSE j \in hits : \A h \in hits : j <= h]
    IN IF i > Len(segments) \/ hits = {} THEN Undefined
       ELSE IF i = Len(segments) THEN Some(found)
       ELSE FindSegments(found.children, segments, i + 1)

\* findPrimByPath: Undefined for null, else Some(the prim)
findPrimByPath(prims, path) == FindSegments(prims, FilterNonEmpty(Split(path, "/")), 1)

RECURSIVE clonePrim(_)
\* a copy of the prim whose children and resolvedChildren are copies
clonePrim(prim) ==
    [prim EXCEPT !.children = [j \in 1..Len(@) |-> clonePrim(@[j])],
                 !.resolvedChildren = [j \in 1..Len(@) |-> clonePrim(@[j])]]

ClonePrims(prims) == [j \in 1..Len(prims) |-> clonePrim(prims[j])]

RECURSIVE filterActivePrimsOfChildren(_)
\* filterActivePrims as it would be if resolvedChildren were left as they
\* are: the variant C5 must reject.
filterActivePrimsOfChildren(prims) ==
    IF prims = <<>> THEN <<>>
    ELSE (IF Head(prims).active # Some(FALSE)
          THEN <<[Head(prims) EXCEPT !.children = filterActivePrimsOfChildren(@)]>>
          ELSE <<>>)
         \o filterActivePrimsOfChildren(Tail(prims))

RECURSIVE filterActivePrims(_)
filterActivePrims(prims) ==
    IF prims = <<>> THEN <<>>
    ELSE (IF Head(prims).active # Some(FALSE)
          THEN <<[Head(prims) EXCEPT !.children = filterActivePrims(@),
                                     !.resolvedChildren = filterActivePrims(@)]>>
          ELSE <<>>)
         \o filterActivePrims(Tail(prims))

\* The entries resolveAllReferences goes through in a forest, in the order it
\* reaches them: for each prim its references, then its payloads, then the
\* entries of its children.  at is the position of the prim holding the entry.
RECURSIVE EntriesOfPrims(_, _, _)
\* EntriesOfPrim as it would be if the children of a prim were resolved
\* before its own entries: the variant C19 must reject.
EntriesOfPrimChildrenFirst(prim, at) ==
    EntriesOfPrims(prim.children, at, 1)
    \o [j \in 1..Len(prim.references) |-> [at |-> at, kind |-> "reference", ref |-> prim.references[j]]]
    \o [j \in 1..Len(prim.payloads) |-> [at |-> at, kind |-> "payload", ref |-> prim.payloads[j]]]

EntriesOfPrim(prim, at) ==
    [j \in 1..Len(prim.references) |-> [at |-> at, kind |-> "reference", ref |-> prim.references[j]]]
    \o [j \in 1..Len(prim.payloads) |-> [at |-> at, kind |-> "payload", ref |-> prim.payloads[j]]]
    \o EntriesOfPrims(prim.children, at, 1)
EntriesOfPrims(prims, prefix, j) ==
    IF j > Len(prims) THEN <<>>
    ELSE EntriesOfPrim(prims[j], Append(prefix, j)) \o EntriesOfPrims(prims, prefix, j + 1)

\* EntryOutcome as it would be if the active flag of the file were not
\* looked at: the variant C7 must reject.
EntryOutcomeOfAnyFile(context, absolutePath) ==
    IF absolutePath \in context.visitedPaths THEN "circular_reference"
    ELSE IF absolutePath \notin DOMAIN context.files THEN "missing_file"
    ELSE "parse"

\* EntryOutcome as it would be if the file map were looked up before the
\* cycle check: the variant C17 must reject.
EntryOutcomeMapFirst(context, absolutePath) ==
    IF absolutePath \notin DOMAIN context.files THEN "missing_file"
    ELSE IF absolutePath \in context.visitedPaths THEN "circular_reference"
    ELSE IF ~context.files[absolutePath].active THEN "inactive"
    ELSE "parse"

\* What the checks at the head of the loop body decide for an entry whose
\* asset path resolved to absolutePath.
EntryOutcome(context, absolutePath) ==
    IF absolutePath \in context.visitedPaths THEN "circular_reference"
    ELSE IF absolutePath \notin DOMAIN context.files THEN "missing_file"
    ELSE IF ~context.files[absolutePath].active THEN "inactive"
    ELSE "parse"

\* CircularError as it would be if a cycle through a payload had an error
\* type of its own: the variant C20 must reject.
CircularErrorTypedByKind(kind, currentFilePath, absolutePath) ==
    [type |-> IF kind = "reference" THEN "circular_reference" ELSE "circular_payload",
     message |-> <<IF kind = "reference" THEN "Circular reference detected: "
                   ELSE "Circular payload detected: ",
                   currentFilePath, " -> ", absolutePath>>,
     filePath |-> currentFilePath]

CircularError(kind, currentFilePath, absolutePath) ==
    [type |-> "circular_reference",
     message |-> <<IF kind = "reference" THEN "Circular reference detected: "
                   ELSE "Circular payload detected: ",
                   currentFilePath, " -> ", absolutePath>>,
     filePath |-> currentFilePath]

\* MissingError as it would be if the error carried the path of the file
\* that is missing: the variant C18 must reject.
MissingErrorAtTarget(kind, currentFilePath, assetPath, absolutePath) ==
    [type |-> "missing_file",
     message |-> <<IF kind = "reference" THEN "Referenced file not found: "
                   ELSE "Payload file not found: ",
                   assetPath, " (resolved to ", absolutePath, ")">>,
     filePath |-> absolutePath]

MissingError(kind, currentFilePath, assetPath, absolutePath) ==
    [type |-> "missing_file",
     message |-> <<IF kind = "reference" THEN "Referenced file not found: "
                   ELSE "Payload file not found: ",
                   assetPath, " (resolved to ", absolutePath, ")">>,
     filePath |-> currentFilePath]

InvalidPrimPathError(currentFilePath, primPath, assetPath) ==
    [type |-> "invalid_prim_path",
     message |-> <<"Prim path not found: ", primPath, " in ", assetPath>>,
     filePath |-> currentFilePath]

ReferencedParseError(kind, currentFilePath, assetPath) ==
    [type |-> "parse_error",
     message |-> <<IF kind = "reference" THEN "Failed to parse referenced file: "
                   ELSE "Failed to parse payload file: ",
                   assetPath, " - ", "TypeError">>,
     filePath |-> currentFilePath]

RootParseError(currentFilePath) ==
    [type |-> "parse_error",
     message |-> <<"Failed to parse USDA: ", "TypeError">>,
     filePath |-> currentFilePath]

\* NewContext as it would be if the path entered were not added to
\* visitedPaths: the variant the depth bound of C1 must reject.
NewContextForgetsPath(context, absolutePath) ==
    [context EXCEPT !.currentFilePath = absolutePath]

\* NewContext as it would be if the set of visited paths were started anew
\* for the file entered: the variant C16 must reject.
NewContextWithoutParents(context, absolutePath) ==
    [context EXCEPT !.currentFilePath = absolutePath, !.visitedPaths = {absolutePath}]

\* The context built to resolve the file at absolutePath from context.
NewContext(context, absolutePath) ==
    [context EXCEPT !.currentFilePath = absolutePath,
                    !.visitedPaths = context.visitedPaths \cup {absolutePath}]

\* The context parseAndResolve starts from.
RootContext(currentFilePath, fileMap) ==
    [currentFilePath |-> currentFilePath, files |-> fileMap, visitedPaths |-> {currentFilePath}]

\* Contribution as it would be if the prim path of an entry were not looked
\* at: the variant C8 must reject.
ContributionOfAllPrims(ref, resolvedPrims) == Some(ClonePrims(resolvedPrims))

\* What an entry adds to resolvedChildren once the referenced file is
\* resolved to resolvedPrims: Some(prims to push), or Undefined when its prim
\* path is not found.
Contribution(ref, resolvedPrims) ==
    LET targetPrim == findPrimByPath(resolvedPrims, ref.primPath[1])
    IN IF ref.primPath # Undefined
       THEN (IF targetPrim # Undefined THEN Some(<<clonePrim(targetPrim[1])>>) ELSE Undefined)
       ELSE Some(ClonePrims(resolvedPrims))

\* parseUsda throws on a content that is no string (content.split is not a
\* function): the one way its caller's catch block is entered.
ParseThrows(content) == content = Undefined

\* CatchRoot as it would be if the catch block threw again: the variant C4
\* must reject.
CatchRootRethrows(errs, currentFilePath) ==
    [raised |-> TRUE, prims |-> <<>>, errors |-> errs]

\* What the catch block of parseAndResolve returns.
CatchRoot(errs, currentFilePath) ==
    [raised |-> FALSE, prims |-> <<>>, errors |-> Append(errs, RootParseError(currentFilePath))]

\* What parseAndResolve returns from its try block.
ReturnRoot(errs, resolved) ==
    [raised |-> FALSE, prims |-> filterActivePrims(resolved), errors |-> errs]

----------------------------------------------------------------------------
(* Interpolation of time samples.  A number that arithmetic produced is    *)
(* kept exactly, as the quotient num / den in lowest terms with den > 0;   *)
(* the rounding of the floating-point operations is not modelled.          *)

NotANumber == [nan |-> TRUE, num |-> 0, den |-> 1]

RECURSIVE Gcd(_, _)
Gcd(a, b) == IF b = 0 THEN a ELSE Gcd(b, a % b)

\* num / den for den # 0, in lowest terms
Quotient(num, den) ==
    [nan |-> FALSE,
     num |-> (IF den < 0 THEN -num ELSE num)
             \div Gcd(IF num < 0 THEN -num ELSE num, IF den < 0 THEN -den ELSE den),
     den |-> (IF den < 0 THEN -den ELSE den)
             \div Gcd(IF num < 0 THEN -num ELSE num, IF den < 0 THEN -den ELSE den)]

\* the value of a number the parser read
Exact(n) == IF n.nan THEN NotANumber ELSE Quotient(n.m, 10 ^ n.e)

\* a op b for the operators the interpolation uses.  NaN is absorbing.  The
\* one division divides by the difference of two different keys of a Map.
Calc(a, op, b) ==
    IF a.nan \/ b.nan THEN NotANumber
    ELSE IF op = "+" THEN Quotient(a.num * b.den + b.num * a.den, a.den * b.den)
    ELSE IF op = "-" THEN Quotient(a.num * b.den - b.num * a.den, a.den * b.den)
    ELSE IF op = "*" THEN Quotient(a.num * b.num, a.den * b.den)
    ELSE Quotient(a.num * b.den, a.den * b.num)

\* a <= b: false when either is NaN
LessEq(a, b) == ~a.nan /\ ~b.nan /\ a.num * b.den <= b.num * a.den

\* Array.from(timeSamples.keys()): the keys in insertion order
Keys(timeSamples) == [j \in 1..Len(timeSamples) |-> timeSamples[j].key]

RECURSIVE SortAscending(_)
\* times.sort((a, b) => a - b) for keys none of which is NaN: the keys of a
\* Map are different numbers, so the order is their order as numbers
SortAscending(times) ==
    IF times = <<>> THEN <<>>
    ELSE LET least == CHOOSE j \in 1..Len(times) :
                          \A k \in 1..Len(times) : LessEq(Exact(times[j]), Exact(times[k]))
         IN <<times[least]>>
            \o SortAscending(SubSeq(times, 1, least - 1) \o SubSeq(times, least + 1, Len(times)))

\* timeSamples.get(time) for a key of the Map
MapGet(timeSamples, time) ==
    timeSamples[CHOOSE j \in 1..Len(timeSamples) : timeSamples[j].key = time].value

RECURSIVE Segment(_, _, _)
\* the loop over the sorted times: the first i with times[i] <= frame <=
\* times[i + 1], or 0 when the loop ends without one
Segment(times, frame, i) ==
    IF i > Len(times) - 1 THEN 0
    ELSE IF LessEq(Exact(times[i]), frame) /\ LessEq(frame, Exact(times[i + 1])) THEN i
    ELSE Segment(times, frame, i + 1)

\* t = (frame - times[i]) / (times[i + 1] - times[i])
Progress(times, frame, i) ==
    Calc(Calc(frame, "-", Exact(times[i])), "/", Calc(Exact(times[i + 1]), "-", Exact(times[i])))

\* v0 + (v1 - v0) * t
Blend(v0, v1, t) == Calc(Exact(v0), "+", Calc(Calc(Exact(v1), "-", Exact(v0)), "*", t))

\* interpolateValue once the times are sorted
InterpolateSorted(timeSamples, times, frame) ==
    IF Len(times) = 0 THEN Quotient(0, 1)
    ELSE IF LessEq(frame, Exact(times[1])) THEN Exact(MapGet(timeSamples, times[1]))
    ELSE IF LessEq(Exact(times[Len(times)]), frame)
    THEN Exact(MapGet(timeSamples, times[Len(times)]))
    ELSE IF Segment(times, frame, 1) = 0 THEN Exact(MapGet(timeSamples, times[1]))
    ELSE Blend(MapGet(timeSamples, times[Segment(times, frame, 1)]),
               MapGet(timeSamples, times[Segment(times, frame, 1) + 1]),
               Progress(times, frame, Segment(times, frame, 1)))

\* interpolateValue as it would be if the times were taken in insertion
\* order: the variant C12 must reject.
interpolateValueUnsorted(timeSamples, frame) ==
    InterpolateSorted(timeSamples, Keys(timeSamples), frame)

interpolateValue(timeSamples, frame) ==
    InterpolateSorted(timeSamples, SortAscending(Keys(timeSamples)), frame)

Exact3(v) == <<Exact(v[1]), Exact(v[2]), Exact(v[3])>>

Blend3(v0, v1, t) == <<Blend(v0[1], v1[1], t), Blend(v0[2], v1[2], t), Blend(v0[3], v1[3], t)>>

\* interpolateVector3 once the times are sorted
InterpolateSorted3(timeSamples, times, frame) ==
    IF Len(times) = 0 THEN <<Quotient(0, 1), Quotient(0, 1), Quotient(0, 1)>>
    ELSE IF LessEq(frame, Exact(times[1])) THEN Exact3(MapGet(timeSamples, times[1]))
    ELSE IF LessEq(Exact(times[Len(times)]), frame)
    THEN Exact3(MapGet(timeSamples, times[Len(times)]))
    ELSE IF Segment(times, frame, 1) = 0 THEN Exact3(MapGet(timeSamples, times[1]))
    ELSE Blend3(MapGet(timeSamples, times[Segment(times, frame, 1)]),
                MapGet(timeSamples, times[Segment(times, frame, 1) + 1]),
                Progress(times, frame, Segment(times, frame, 1)))

interpolateVector3(timeSamples, frame) ==
    InterpolateSorted3(timeSamples, SortAscending(Keys(timeSamples)), frame)

----------------------------------------------------------------------------
(* The values PrimMesh displays a prim with at a frame *)

\* Vector3OrStatic as it would be if a static value were preferred to the
\* time samples: the variant C25 must reject.
StaticOrVector3(samples, static, fallback, currentFrame) ==
    IF static # Undefined THEN Exact3(static[1])
    ELSE IF samples # Undefined THEN interpolateVector3(samples[1], currentFrame)
    ELSE fallback

\* prim.xTimeSamples ? interpolateVector3(prim.xTimeSamples, currentFrame)
\*                    : prim.x ?? fallback    (a Map, empty or not, is truthy)
Vector3OrStatic(samples, static, fallback, currentFrame) ==
    IF samples # Undefined THEN interpolateVector3(samples[1], currentFrame)
    ELSE IF static # Undefined THEN Exact3(static[1])
    ELSE fallback

\* prim.xTimeSamples ? interpolateValue(prim.xTimeSamples, currentFrame) : prim.x
ScalarOrStatic(samples, static, currentFrame) ==
    IF samples # Undefined THEN Some(interpolateValue(samples[1], currentFrame))
    ELSE IF static # Undefined THEN Some(Exact(static[1]))
    ELSE Undefined

\* value ?? fallback
OrElse(value, fallback) == IF value # Undefined THEN value[1] ELSE fallback

\* the arguments of the geometry of a prim of a type (the segment counts
\* left out); no geometry for any other type
GeometryArgs(type, radius, size, height) ==
    IF type = Some(<<"S","p","h","e","r","e">>) THEN <<OrElse(radius, Quotient(1, 1))>>
    ELSE IF type = Some(<<"C","u","b","e">>)
    THEN <<OrElse(size, Quotient(1, 1)), OrElse(size, Quotient(1, 1)), OrElse(size, Quotient(1, 1))>>
    ELSE IF type = Some(<<"C","y","l","i","n","d","e","r">>)
    THEN <<OrElse(radius, Quotient(1, 2)), OrElse(radius, Quotient(1, 2)), OrElse(height, Quotient(1, 1))>>
    ELSE IF type = Some(<<"C","o","n","e">>)
    THEN <<OrElse(radius, Quotient(1, 2)), OrElse(height, Quotient(1, 1))>>
    ELSE <<>>

\* what PrimMesh computes from a prim and the current frame before it
\* places the prim under its parent
PrimMesh(prim, currentFrame) ==
    [primPosition |-> Vector3OrStatic(prim.positionTimeSamples, prim.position,
                                      <<Quotient(0, 1), Quotient(0, 1), Quotient(0, 1)>>, currentFrame),
     primRotation |-> Vector3OrStatic(prim.rotationTimeSamples, prim.rotation,
                                      <<Quotient(0, 1), Quotient(0, 1), Quotient(0, 1)>>, currentFrame),
     primScale |-> Vector3OrStatic(prim.scaleTimeSamples, prim.scale,
                                   <<Quotient(1, 1), Quotient(1, 1), Quotient(1, 1)>>, currentFrame),
     color |-> Vector3OrStatic(prim.colorTimeSamples, prim.color,
                               <<Quotient(3, 5), Quotient(3, 5), Quotient(3, 5)>>, currentFrame),
     radius |-> ScalarOrStatic(prim.radiusTimeSamples, prim.radius, currentFrame),
     size |-> ScalarOrStatic(prim.sizeTimeSamples, prim.size, currentFrame),
     height |-> ScalarOrStatic(prim.heightTimeSamples, prim.height, currentFrame),
     geometry |-> GeometryArgs(prim.type,
                               ScalarOrStatic(prim.radiusTimeSamples, prim.radius, currentFrame),
                               ScalarOrStatic(prim.sizeTimeSamples, prim.size, currentFrame),
                               ScalarOrStatic(prim.heightTimeSamples, prim.height, currentFrame))]
\* '/main.usda'
MainPath == <<"/","m","a","i","n",".","u","s","d","a">>
\* '/cube.usda'
CubePath == <<"/","c","u","b","e",".","u","s","d","a">>
\* '/lib.usda'
LibPath == <<"/","l","i","b",".","u","s","d","a">>
\* '/models/cube.usda'
ModelPath == <<"/","m","o","d","e","l","s","/","c","u","b","e",".","u","s","d","a">>

\* the scene of the spec's concrete scenario, laid out as the README lays out a prim
\*   | def Sphere "S"
\*   | {
\*   |     double radius = 1.0
\*   | }
\*   | 
\*   | def "Ref" (references = @./cube.usda@)
\*   | {
\*   | }
MainScenario ==
    <<"d","e","f"," ","S","p","h","e","r","e"," ","\"","S","\"","\n">> \o
    <<"{","\n">> \o
    <<" "," "," "," ","d","o","u","b","l","e"," ","r","a","d","i","u","s"," ","="," ","1",".","0","\n">> \o
    <<"}","\n">> \o
    <<"\n">> \o
    <<"d","e","f"," ","\"","R","e","f","\""," ","(","r","e","f","e","r","e","n","c","e","s"," ","="," ","@",".","/","c","u","b","e",".","u","s","d","a","@",")","\n">> \o
    <<"{","\n">> \o
    <<"}","\n">>

\* main.usda of the README's reference example
\*   | #usda 1.0
\*   | 
\*   | def Xform "World"
\*   | {
\*   |     def "ImportedCube" (
\*   |         references = @./models/cube.usda@
\*   |     ) {
\*   |         double3 xformOp:translate = (2, 0, 0)
\*   |         uniform token[] xformOpOrder = ["xformOp:translate"]
\*   |     }
\*   | }
MainReadme ==
    <<"#","u","s","d","a"," ","1",".","0","\n">> \o
    <<"\n">> \o
    <<"d","e","f"," ","X","f","o","r","m"," ","\"","W","o","r","l","d","\"","\n">> \o
    <<"{","\n">> \o
    <<" "," "," "," ","d","e","f"," ","\"","I","m","p","o","r","t","e","d","C","u","b","e","\""," ","(","\n">> \o
    <<" "," "," "," "," "," "," "," ","r","e","f","e","r","e","n","c","e","s"," ","="," ","@",".","/","m","o","d","e","l","s","/","c","u","b","e",".","u","s","d","a","@","\n">> \o
    <<" "," "," "," ",")"," ","{","\n">> \o
    <<" "," "," "," "," "," "," "," ","d","o","u","b","l","e","3"," ","x","f","o","r","m","O","p",":","t","r","a","n","s","l","a","t","e"," ","="," ","(","2",","," ","0",","," ","0",")","\n">> \o
    <<" "," "," "," "," "," "," "," ","u","n","i","f","o","r","m"," ","t","o","k","e","n","[","]"," ","x","f","o","r","m","O","p","O","r","d","e","r"," ","="," ","[","\"","x","f","o","r","m","O","p",":","t","r","a","n","s","l","a","t","e","\"","]","\n">> \o
    <<" "," "," "," ","}","\n">> \o
    <<"}","\n">>

\* an inactive prim with a subtree, a reference and a payload of one prim to one file,
\* sibling and nested prims that use the same file, an entry to a prim path no file has
\* and an entry to a file that does not exist
\*   | def "Top" (
\*   |     active = false
\*   |     references = @./cube.usda@</C>
\*   |     payload = @cube.usda@
\*   | )
\*   | {
\*   |     def Cube "Inner"
\*   |     {
\*   |     }
\*   | }
\*   | 
\*   | def Xform "Grp" (payload = @./lib.usda@</Nope>)
\*   | {
\*   |     def "Leaf" (references = @/missing.usda@ payload = @./cube.usda@)
\*   |     {
\*   |     }
\*   | }
\*   | 
\*   | def "Hid" (references = @./cube.usda@</Off>)
\*   | {
\*   | }
MainCompose ==
    <<"d","e","f"," ","\"","T","o","p","\""," ","(","\n">> \o
    <<" "," "," "," ","a","c","t","i","v","e"," ","="," ","f","a","l","s","e","\n">> \o
    <<" "," "," "," ","r","e","f","e","r","e","n","c","e","s"," ","="," ","@",".","/","c","u","b","e",".","u","s","d","a","@","<","/","C",">","\n">> \o
    <<" "," "," "," ","p","a","y","l","o","a","d"," ","="," ","@","c","u","b","e",".","u","s","d","a","@","\n">> \o
    <<")","\n">> \o
    <<"{","\n">> \o
    <<" "," "," "," ","d","e","f"," ","C","u","b","e"," ","\"","I","n","n","e","r","\"","\n">> \o
    <<" "," "," "," ","{","\n">> \o
    <<" "," "," "," ","}","\n">> \o
    <<"}","\n">> \o
    <<"\n">> \o
    <<"d","e","f"," ","X","f","o","r","m"," ","\"","G","r","p","\""," ","(","p","a","y","l","o","a","d"," ","="," ","@",".","/","l","i","b",".","u","s","d","a","@","<","/","N","o","p","e",">",")","\n">> \o
    <<"{","\n">> \o
    <<" "," "," "," ","d","e","f"," ","\"","L","e","a","f","\""," ","(","r","e","f","e","r","e","n","c","e","s"," ","="," ","@","/","m","i","s","s","i","n","g",".","u","s","d","a","@"," ","p","a","y","l","o","a","d"," ","="," ","@",".","/","c","u","b","e",".","u","s","d","a","@",")","\n">> \o
    <<" "," "," "," ","{","\n">> \o
    <<" "," "," "," ","}","\n">> \o
    <<"}","\n">> \o
    <<"\n">> \o
    <<"d","e","f"," ","\"","H","i","d","\""," ","(","r","e","f","e","r","e","n","c","e","s"," ","="," ","@",".","/","c","u","b","e",".","u","s","d","a","@","<","/","O","f","f",">",")","\n">> \o
    <<"{","\n">> \o
    <<"}","\n">>

\* cube.usda of the spec's concrete scenario
\*   | def Cube "C"
\*   | {
\*   |     double size = 2.0
\*   | }
CubeScenario ==
    <<"d","e","f"," ","C","u","b","e"," ","\"","C","\"","\n">> \o
    <<"{","\n">> \o
    <<" "," "," "," ","d","o","u","b","l","e"," ","s","i","z","e"," ","="," ","2",".","0","\n">> \o
    <<"}","\n">>

\* two entries that lead back to /main.usda, one of a prim declared active and one under
\* an inactive prim
\*   | def Cube "Back" (active = true references = @./main.usda@)
\*   | {
\*   | }
\*   | 
\*   | def Sphere "Off" (active = false)
\*   | {
\*   |     def "Deep" (payload = @/main.usda@</S>)
\*   |     {
\*   |     }
\*   | }
CubeBack ==
    <<"d","e","f"," ","C","u","b","e"," ","\"","B","a","c","k","\""," ","(","a","c","t","i","v","e"," ","="," ","t","r","u","e"," ","r","e","f","e","r","e","n","c","e","s"," ","="," ","@",".","/","m","a","i","n",".","u","s","d","a","@",")","\n">> \o
    <<"{","\n">> \o
    <<"}","\n">> \o
    <<"\n">> \o
    <<"d","e","f"," ","S","p","h","e","r","e"," ","\"","O","f","f","\""," ","(","a","c","t","i","v","e"," ","="," ","f","a","l","s","e",")","\n">> \o
    <<"{","\n">> \o
    <<" "," "," "," ","d","e","f"," ","\"","D","e","e","p","\""," ","(","p","a","y","l","o","a","d"," ","="," ","@","/","m","a","i","n",".","u","s","d","a","@","<","/","S",">",")","\n">> \o
    <<" "," "," "," ","{","\n">> \o
    <<" "," "," "," ","}","\n">> \o
    <<"}","\n">>

\* an entry to a prim of /lib.usda and an entry to the file itself
\*   | def Xform "C" (references = @./lib.usda@</L/Sub>)
\*   | {
\*   |     double size = 0.5
\*   | }
\*   | 
\*   | def "Loop" (payload = @/cube.usda@)
\*   | {
\*   | }
CubeChain ==
    <<"d","e","f"," ","X","f","o","r","m"," ","\"","C","\""," ","(","r","e","f","e","r","e","n","c","e","s"," ","="," ","@",".","/","l","i","b",".","u","s","d","a","@","<","/","L","/","S","u","b",">",")","\n">> \o
    <<"{","\n">> \o
    <<" "," "," "," ","d","o","u","b","l","e"," ","s","i","z","e"," ","="," ","0",".","5","\n">> \o
    <<"}","\n">> \o
    <<"\n">> \o
    <<"d","e","f"," ","\"","L","o","o","p","\""," ","(","p","a","y","l","o","a","d"," ","="," ","@","/","c","u","b","e",".","u","s","d","a","@",")","\n">> \o
    <<"{","\n">> \o
    <<"}","\n">>

\* an entry back to /main.usda and one on to /models/cube.usda
\*   | def Xform "L" (references = @./main.usda@)
\*   | {
\*   |     def Sphere "Sub" (payload = @models/cube.usda@)
\*   |     {
\*   |         double radius.timeSamples = {
\*   |             0: 0.5,
\*   |             24: 1.5,
\*   |         }
\*   |     }
\*   | }
LibHub ==
    <<"d","e","f"," ","X","f","o","r","m"," ","\"","L","\""," ","(","r","e","f","e","r","e","n","c","e","s"," ","="," ","@",".","/","m","a","i","n",".","u","s","d","a","@",")","\n">> \o
    <<"{","\n">> \o
    <<" "," "," "," ","d","e","f"," ","S","p","h","e","r","e"," ","\"","S","u","b","\""," ","(","p","a","y","l","o","a","d"," ","="," ","@","m","o","d","e","l","s","/","c","u","b","e",".","u","s","d","a","@",")","\n">> \o
    <<" "," "," "," ","{","\n">> \o
    <<" "," "," "," "," "," "," "," ","d","o","u","b","l","e"," ","r","a","d","i","u","s",".","t","i","m","e","S","a","m","p","l","e","s"," ","="," ","{","\n">> \o
    <<" "," "," "," "," "," "," "," "," "," "," "," ","0",":"," ","0",".","5",",","\n">> \o
    <<" "," "," "," "," "," "," "," "," "," "," "," ","2","4",":"," ","1",".","5",",","\n">> \o
    <<" "," "," "," "," "," "," "," ","}","\n">> \o
    <<" "," "," "," ","}","\n">> \o
    <<"}","\n">>

\* models/cube.usda of the README's reference example
\*   | #usda 1.0
\*   | 
\*   | def Cube "MyCube"
\*   | {
\*   |     double size = 1.0
\*   |     color3f[] primvars:displayColor = [(0.2, 0.6, 1.0)]
\*   | }
ModelReadme ==
    <<"#","u","s","d","a"," ","1",".","0","\n">> \o
    <<"\n">> \o
    <<"d","e","f"," ","C","u","b","e"," ","\"","M","y","C","u","b","e","\"","\n">> \o
    <<"{","\n">> \o
    <<" "," "," "," ","d","o","u","b","l","e"," ","s","i","z","e"," ","="," ","1",".","0","\n">> \o
    <<" "," "," "," ","c","o","l","o","r","3","f","[","]"," ","p","r","i","m","v","a","r","s",":","d","i","s","p","l","a","y","C","o","l","o","r"," ","="," ","[","(","0",".","2",","," ","0",".","6",","," ","1",".","0",")","]","\n">> \o
    <<"}","\n">>

\* an entry to a prim that /cube.usda gets from its own reference
\*   | def Xform "Pick" (references = @../cube.usda@</C/Sub>)
\*   | {
\*   | }
ModelPick ==
    <<"d","e","f"," ","X","f","o","r","m"," ","\"","P","i","c","k","\""," ","(","r","e","f","e","r","e","n","c","e","s"," ","="," ","@",".",".","/","c","u","b","e",".","u","s","d","a","@","<","/","C","/","S","u","b",">",")","\n">> \o
    <<"{","\n">> \o
    <<"}","\n">>

\* an entry to the file itself and one up to /main.usda
\*   | def "Me" (payload = @./cube.usda@)
\*   | {
\*   | }
\*   | 
\*   | def "Up" (references = @../main.usda@</Grp/Leaf>)
\*   | {
\*   | }
ModelSelf ==
    <<"d","e","f"," ","\"","M","e","\""," ","(","p","a","y","l","o","a","d"," ","="," ","@",".","/","c","u","b","e",".","u","s","d","a","@",")","\n">> \o
    <<"{","\n">> \o
    <<"}","\n">> \o
    <<"\n">> \o
    <<"d","e","f"," ","\"","U","p","\""," ","(","r","e","f","e","r","e","n","c","e","s"," ","="," ","@",".",".","/","m","a","i","n",".","u","s","d","a","@","<","/","G","r","p","/","L","e","a","f",">",")","\n">> \o
    <<"{","\n">> \o
    <<"}","\n">>



----------------------------------------------------------------------------
(* The workspace store: the file map, the open tabs and the active tab of   *)
(* WorkspaceProvider.  A store is the state the calls made so far lead to    *)
(* once React has applied their updaters, each hook's in the order of the    *)
(* calls, together with the openFilePaths of the last render, which is what  *)
(* the closures of deleteFile and closeFile hold until the next render.      *)
(* null is Undefined here; ids, contents and time stamps are left out, and   *)
(* the file map is kept without its insertion order.                         *)

ShapesPath == <<"/","m","o","d","e","l","s","/","s","h","a","p","e","s",".","u","s","d","a">>

\* path.startsWith('/') ? path : `/${path}`
NormalizedPath(path) == IF StartsWith(path, "/") THEN path ELSE <<"/">> \o path

\* normalizedPath.split('/').pop() || fallback
NameOfPath(normalizedPath, fallback) ==
    IF Split(normalizedPath, "/")[Len(Split(normalizedPath, "/"))] # <<>>
    THEN Split(normalizedPath, "/")[Len(Split(normalizedPath, "/"))]
    ELSE fallback

VirtualFile(path, name) == [path |-> path, name |-> name, isDirty |-> FALSE, active |-> TRUE]

\* Map.prototype.set and Map.prototype.delete on a copy of the map
WithFile(map, path, file) == [p \in DOMAIN map \cup {path} |-> IF p = path THEN file ELSE map[p]]
WithoutFile(map, path) == [p \in DOMAIN map \ {path} |-> map[p]]

\* Array.prototype.includes
IncludesPath(paths, path) == \E j \in 1..Len(paths) : paths[j] = path

RECURSIVE WithoutPath(_, _)
\* paths.filter((p) => p !== path)
WithoutPath(paths, path) ==
    IF paths = <<>> THEN <<>>
    ELSE (IF Head(paths) = path THEN <<>> ELSE <<Head(paths)>>) \o WithoutPath(Tail(paths), path)

\* remaining.length > 0 ? remaining[remaining.length - 1] : null
LastOrNull(remaining) == IF Len(remaining) > 0 THEN Some(remaining[Len(remaining)]) ELSE Undefined

\* the updater of setActiveFilePath in deleteFile and closeFile as it would
\* be if it were handed the open tabs the updaters before it have left: the
\* variant that takes the captured array out of the store.
ActiveAfterRemovalOfCurrent(store, path) ==
    IF store.activeFilePath = Some(path)
    THEN LastOrNull(WithoutPath(store.openFilePaths, path))
    ELSE store.activeFilePath

\* the updater of setActiveFilePath in deleteFile and closeFile: the
\* remaining tabs are computed from the openFilePaths the callback was
\* created with
ActiveAfterRemoval(store, path) ==
    IF store.activeFilePath = Some(path)
    THEN LastOrNull(WithoutPath(store.captured, path))
    ELSE store.activeFilePath

\* the state of the provider when it is mounted
InitialStore ==
    [files |-> WithFile(WithFile(WithFile(<<>>, MainPath, VirtualFile(MainPath, <<"m","a","i","n",".","u","s","d","a">>)),
                               ModelPath, VirtualFile(ModelPath, <<"c","u","b","e",".","u","s","d","a">>)),
                       ShapesPath, VirtualFile(ShapesPath, <<"s","h","a","p","e","s",".","u","s","d","a">>)),
     activeFilePath |-> Some(MainPath),
     openFilePaths |-> <<MainPath>>,
     captured |-> <<MainPath>>]

createFile(store, path) ==
    [store EXCEPT
        !.files = WithFile(@, NormalizedPath(path),
                          VirtualFile(NormalizedPath(path),
                                      NameOfPath(NormalizedPath(path), <<"u","n","t","i","t","l","e","d",".","u","s","d","a">>))),
        !.openFilePaths = IF ~IncludesPath(@, NormalizedPath(path))
                          THEN Append(@, NormalizedPath(path)) ELSE @,
        !.activeFilePath = Some(NormalizedPath(path))]

deleteFile(store, path) ==
    [store EXCEPT
        !.files = WithoutFile(@, path),
        !.openFilePaths = WithoutPath(@, path),
        !.activeFilePath = ActiveAfterRemoval(store, path)]

renameFile(store, oldPath, newPath) ==
    [store EXCEPT
        !.files = IF oldPath \notin DOMAIN @ THEN @
                  ELSE WithFile(WithoutFile(@, oldPath), NormalizedPath(newPath),
                               [@[oldPath] EXCEPT
                                   !.path = NormalizedPath(newPath),
                                   !.name = NameOfPath(NormalizedPath(newPath), @)]),
        !.openFilePaths = [j \in 1..Len(@) |-> IF @[j] = oldPath THEN newPath ELSE @[j]],
        !.activeFilePath = IF @ = Some(oldPath) THEN Some(newPath) ELSE @]

openFile(store, path) ==
    [store EXCEPT
        !.openFilePaths = IF ~IncludesPath(@, path) THEN Append(@, path) ELSE @,
        !.activeFilePath = Some(path)]

closeFile(store, path) ==
    [store EXCEPT
        !.openFilePaths = WithoutPath(@, path),
        !.activeFilePath = ActiveAfterRemoval(store, path)]

----------------------------------------------------------------------------
(* Playback and recording: the state of App (usdaContent, isRecording), of   *)
(* UsdViewer (isPlaying, currentFrame) and of AnimationPlayer (frameRef,     *)
(* hasCompletedLoopRef).  A handler is taken together with the renders and   *)
(* the effects it leads to.  A content stands for a text with the time range *)
(* getTimeRange finds in its prims; frames are whole numbers and a frame     *)
(* tick advances by one or two of them.                                      *)

\* the contents the editor hands over: the default scene, the same scene
\* with another static value, a scene whose samples start later, and a
\* scene without time samples
ViewerContents ==
    {[text |-> "default", startFrame |-> 0, endFrame |-> 3],
     [text |-> "edited", startFrame |-> 0, endFrame |-> 3],
     [text |-> "later", startFrame |-> 1, endFrame |-> 4],
     [text |-> "static", startFrame |-> 0, endFrame |-> 0]}
\* delta * fps of a frame tick
FrameSteps == {1, 2}

hasAnimation(p) == p.content.endFrame > p.content.startFrame

\* UsdViewer and AnimationPlayer once mounted with the default content: the
\* effect of lines 674-677 has set the frame to startFrame
InitialPlayer ==
    [content |-> [text |-> "default", startFrame |-> 0, endFrame |-> 3],
     isRecording |-> FALSE, isPlaying |-> FALSE, currentFrame |-> 0,
     frameRef |-> 0, hasCompletedLoop |-> FALSE, completions |-> 0]

\* the effects of AnimationPlayer after a render in which isPlaying has
\* changed: playing clears hasCompletedLoopRef, not playing puts frameRef
\* back to startFrame
AfterPlayingChanged(p) ==
    IF p.isPlaying THEN [p EXCEPT !.hasCompletedLoop = FALSE]
    ELSE [p EXCEPT !.frameRef = p.content.startFrame]

\* setIsPlaying(playing) and the render it leads to, when it leads to one
setIsPlaying(p, playing) ==
    IF p.isPlaying = playing THEN p ELSE AfterPlayingChanged([p EXCEPT !.isPlaying = playing])

handlePlay(p) == setIsPlaying(p, TRUE)
handleStop(p) == setIsPlaying(p, FALSE)
handleReset(p) == setIsPlaying([p EXCEPT !.currentFrame = p.content.startFrame], FALSE)
handleFrameChange(p, frame) == setIsPlaying([p EXCEPT !.currentFrame = frame], FALSE)

\* handleRecordVideo with the canvas ready: setIsRecording(true), and the
\* effect of UsdViewer on [isRecording, startFrame]
handleRecordVideo(p) ==
    IF hasAnimation(p)
    THEN setIsPlaying([p EXCEPT !.isRecording = TRUE, !.completions = 0,
                                !.currentFrame = p.content.startFrame], TRUE)
    ELSE p

\* handleLoopComplete: setIsPlaying(false), then onRecordingComplete, which
\* is handleRecordingComplete of App: setIsRecording(false)
handleLoopComplete(p) ==
    setIsPlaying([p EXCEPT !.isRecording = FALSE, !.completions = @ + 1], FALSE)

\* the callback of useFrame for a tick of delta * fps = step
useFrame(p, step) ==
    IF p.isPlaying /\ hasAnimation(p)
    THEN IF p.frameRef + step > p.content.endFrame
         THEN IF p.isRecording /\ ~p.hasCompletedLoop
              THEN handleLoopComplete([p EXCEPT !.hasCompletedLoop = TRUE,
                                                !.frameRef = p.content.endFrame,
                                                !.currentFrame = p.content.endFrame])
              ELSE [p EXCEPT !.frameRef = p.content.startFrame,
                             !.currentFrame = p.content.startFrame]
         ELSE [p EXCEPT !.frameRef = @ + step, !.currentFrame = p.frameRef + step]
    ELSE p

\* handleChange of App with a new content: the render with the new time
\* range, in which AnimationPlayer's effect on [isPlaying, startFrame] sees
\* the isPlaying of before; then the effect of UsdViewer on [startFrame,
\* usdaContent], which stops, and, when startFrame has changed, its effect
\* on [isRecording, startFrame], which plays again while recording
handleChange(p, content) ==
    IF content = p.content THEN p
    ELSE setIsPlaying(
             [p EXCEPT !.content = content,
                       !.currentFrame = content.startFrame,
                       !.frameRef = IF ~p.isPlaying THEN content.startFrame ELSE @],
             p.isRecording /\ content.startFrame # p.content.startFrame)
Paths == {MainPath, CubePath, LibPath, ModelPath}

\* the texts a file at a path may hold
TextsAt(path) ==
    IF path = MainPath THEN {MainScenario, MainReadme, MainCompose}
    ELSE IF path = CubePath THEN {CubeScenario, CubeBack, CubeChain}
    ELSE IF path = LibPath THEN {LibHub}
    ELSE {ModelReadme, ModelSelf, ModelPick}

Texts == UNION {TextsAt(path) : path \in Paths}

\* the parse of every text of the workspace, computed once
ParsedTexts == [text \in Texts |-> parseUsda(text)]

\* the most files a file map holds
MaxFiles == 3

\* A VirtualFile, as far as the resolver reads it.  A content is Some(text),
\* or Undefined for a record that holds no string.
FilesAt(path) ==
    {[path |-> path, content |-> Some(text), active |-> a] : text \in TextsAt(path), a \in BOOLEAN}
    \cup (IF path = LibPath THEN {[path |-> path, content |-> Undefined, active |-> TRUE]} ELSE {})

RECURSIVE FileMapsOver(_)
\* every file map whose keys are the paths of D
FileMapsOver(D) ==
    IF D = {} THEN {<<>>}
    ELSE LET path == CHOOSE p \in D : TRUE
         IN {(path :> file) @@ rest : file \in FilesAt(path), rest \in FileMapsOver(D \ {path})}

FileMaps == UNION {FileMapsOver(D) : D \in {D \in SUBSET Paths : Cardinality(D) <= MaxFiles}}

\* the contents parseAndResolve may be given for the file at a path
RootContents(path) == {Some(text) : text \in TextsAt(path)} \cup {Undefined}

----------------------------------------------------------------------------
(* parseAndResolve as a step machine.  frames is the call stack of          *)
(* resolveAllReferences: one frame for the root file and one for every      *)
(* referenced file being resolved.  A frame holds the context's             *)
(* currentFilePath and visitedPaths, the file's forest as resolved so far   *)
(* and the entries still to go through; while a frame is above it, the head *)
(* of a frame's work is the entry that called.  given is the forest the     *)
(* call was handed, as the heap holds it while the call runs: resolved      *)
(* prims are shallow copies of its prims, so a write through a copy reaches *)
(* it only where the copy kept an array of the original.                    *)

VARIABLES
    files,          \* the file map given to parseAndResolve
    rootPath,       \* its currentFilePath argument
    rootContent,    \* its content argument
    pc,             \* "start", "resolving" or "done"
    frames,         \* the call stack
    errors,         \* the error list shared by all contexts
    result,         \* what parseAndResolve returned, once done
    call,           \* a call of one of the pure functions, checked on its own
    returned,       \* what that call returned, once it did
    parser,         \* the loop of parseUsda in that call: line index, prims and stack
    store,          \* the workspace store: file map, open tabs, active tab
    player          \* the viewer's playback state while a recording runs

vars == <<files, rootPath, rootContent, pc, frames, errors, result, call, returned, parser,
          store, player>>

NoResult == [raised |-> FALSE, prims |-> <<>>, errors |-> <<>>]
NoCall == [fn |-> "none"]

Init ==
    /\ files \in FileMaps
    /\ rootPath \in Paths
    /\ rootContent \in RootContents(rootPath)
    /\ pc = "start"
    /\ frames = <<>>
    /\ errors = <<>>
    /\ result = NoResult
    /\ call = NoCall
    /\ returned = Undefined
    /\ parser = Undefined
    /\ store = InitialStore
    /\ player = InitialPlayer

Frame(context, prims) ==
    [currentFilePath |-> context.currentFilePath, visitedPaths |-> context.visitedPaths,
     prims |-> prims, given |-> prims, work |-> EntriesOfPrims(prims, <<>>, 1)]

ContextOf(frame) ==
    [currentFilePath |-> frame.currentFilePath, files |-> files,
     visitedPaths |-> frame.visitedPaths]

Top == frames[Len(frames)]
\* the entry the loop is at, and the path its asset resolves to
Entry == Head(Top.work)
AbsolutePath == resolveRelativePath(Top.currentFilePath, Entry.ref.assetPath)
AtEntry == pc = "resolving" /\ Top.work # <<>>

\* the top frame with its entry done (`continue`, or the end of the loop body)
NextEntry == [frames EXCEPT ![Len(frames)].work = Tail(@)]

\* ParseRoot as it would be if the inactive prims were filtered out before
\* the resolution: the variant C23 must reject.
ParseRootFilteringFirst ==
    /\ pc = "start"
    /\ ~ParseThrows(rootContent)
    /\ frames' = <<Frame(RootContext(rootPath, files), filterActivePrims(ParsedTexts[rootContent[1]]))>>
    /\ pc' = "resolving"
    /\ UNCHANGED <<store, player, files, rootPath, rootContent, errors, result, call, returned, parser>>

\* parseAndResolve parses the root content and builds the root context
ParseRoot ==
    /\ pc = "start"
    /\ ~ParseThrows(rootContent)
    /\ frames' = <<Frame(RootContext(rootPath, files), ParsedTexts[rootContent[1]])>>
    /\ pc' = "resolving"
    /\ UNCHANGED <<store, player, files, rootPath, rootContent, errors, result, call, returned, parser>>

\* parsing the root content throws: the catch block returns
ParseRootThrows ==
    /\ pc = "start"
    /\ ParseThrows(rootContent)
    /\ result' = CatchRoot(errors, rootPath)
    /\ pc' = "done"
    /\ UNCHANGED <<store, player, files, rootPath, rootContent, frames, errors, call, returned, parser>>

\* CircularReference as it would be if the entry were skipped without an
\* error: the variant C2 must reject.
CircularReferenceUnrecorded ==
    /\ AtEntry
    /\ EntryOutcome(ContextOf(Top), AbsolutePath) = "circular_reference"
    /\ frames' = NextEntry
    /\ UNCHANGED <<store, player, files, rootPath, rootContent, pc, errors, result, call, returned, parser>>

\* the target is on the chain of files being resolved: the error is recorded
\* and the entry skipped
CircularReference ==
    /\ AtEntry
    /\ EntryOutcome(ContextOf(Top), AbsolutePath) = "circular_reference"
    /\ errors' = Append(errors, CircularError(Entry.kind, Top.currentFilePath, AbsolutePath))
    /\ frames' = NextEntry
    /\ UNCHANGED <<store, player, files, rootPath, rootContent, pc, result, call, returned, parser>>

\* MissingFile as it would be if the missing file ended the resolution of
\* the file that holds the entry: the variant C6 must reject.
MissingFileEndsLoop ==
    /\ AtEntry
    /\ EntryOutcome(ContextOf(Top), AbsolutePath) = "missing_file"
    /\ errors' = Append(errors, MissingError(Entry.kind, Top.currentFilePath,
                                             Entry.ref.assetPath, AbsolutePath))
    /\ frames' = [frames EXCEPT ![Len(frames)].work = <<>>]
    /\ UNCHANGED <<store, player, files, rootPath, rootContent, pc, result, call, returned, parser>>

\* no file at the path: the error is recorded and the entry skipped
MissingFile ==
    /\ AtEntry
    /\ EntryOutcome(ContextOf(Top), AbsolutePath) = "missing_file"
    /\ errors' = Append(errors, MissingError(Entry.kind, Top.currentFilePath,
                                             Entry.ref.assetPath, AbsolutePath))
    /\ frames' = NextEntry
    /\ UNCHANGED <<store, player, files, rootPath, rootContent, pc, result, call, returned, parser>>

SkipInactiveFile ==
    /\ AtEntry
    /\ EntryOutcome(ContextOf(Top), AbsolutePath) = "inactive"
    /\ frames' = NextEntry
    /\ UNCHANGED <<store, player, files, rootPath, rootContent, pc, errors, result, call, returned, parser>>

\* parsing the referenced file throws: the catch block of the loop body
ParseReferencedThrows ==
    /\ AtEntry
    /\ EntryOutcome(ContextOf(Top), AbsolutePath) = "parse"
    /\ ParseThrows(files[AbsolutePath].content)
    /\ errors' = Append(errors, ReferencedParseError(Entry.kind, Top.currentFilePath,
                                                     Entry.ref.assetPath))
    /\ frames' = NextEntry
    /\ UNCHANGED <<store, player, files, rootPath, rootContent, pc, result, call, returned, parser>>

\* the referenced file is parsed and resolveAllReferences is called on it
\* with the new context
EnterFile ==
    /\ AtEntry
    /\ EntryOutcome(ContextOf(Top), AbsolutePath) = "parse"
    /\ ~ParseThrows(files[AbsolutePath].content)
    /\ frames' = Append(frames, Frame(NewContext(ContextOf(Top), AbsolutePath),
                                      ParsedTexts[files[AbsolutePath].content[1]]))
    /\ UNCHANGED <<store, player, files, rootPath, rootContent, pc, errors, result, call, returned, parser>>

Returning == pc = "resolving" /\ Top.work = <<>> /\ Len(frames) > 1
Caller == frames[Len(frames) - 1]
CallerEntry == Head(Caller.work)

\* ReturnTo as it would be if one set of visited paths were shared by all
\* contexts, so that a path entered once stays visited after the return: the
\* variant C3 must reject.
ReturnToSharedVisited(pushed) ==
    LET prim == GetPrim(Caller.prims, CallerEntry.at)
    IN [SubSeq(frames, 1, Len(frames) - 1) EXCEPT
            ![Len(frames) - 1].prims =
                SetPrim(@, CallerEntry.at, [prim EXCEPT !.resolvedChildren = @ \o pushed]),
            ![Len(frames) - 1].visitedPaths = @ \cup Top.visitedPaths,
            ![Len(frames) - 1].work = Tail(@)]

\* ReturnTo as it would be if the prim given were resolved in place, not a
\* copy of it: the variant C11 must reject.
ReturnToInPlace(pushed) ==
    LET prim == GetPrim(Caller.prims, CallerEntry.at)
        original == GetPrim(Caller.given, CallerEntry.at)
    IN [SubSeq(frames, 1, Len(frames) - 1) EXCEPT
            ![Len(frames) - 1].prims =
                SetPrim(@, CallerEntry.at, [prim EXCEPT !.resolvedChildren = @ \o pushed]),
            ![Len(frames) - 1].given =
                SetPrim(@, CallerEntry.at, [original EXCEPT !.resolvedChildren = @ \o pushed]),
            ![Len(frames) - 1].work = Tail(@)]

\* the call stack after the top frame returned and the caller pushed pushed
\* onto the resolvedChildren of the prim that holds the entry.  The prim is
\* the copy { ...prim } of the prim given; its resolvedChildren is the array
\* of the original where the original has one (resolvedChildren || []), and
\* then the push is a push onto the original's array too.
ReturnTo(pushed) ==
    LET prim == GetPrim(Caller.prims, CallerEntry.at)
        original == GetPrim(Caller.given, CallerEntry.at)
    IN [SubSeq(frames, 1, Len(frames) - 1) EXCEPT
            ![Len(frames) - 1].prims =
                SetPrim(@, CallerEntry.at, [prim EXCEPT !.resolvedChildren = @ \o pushed]),
            ![Len(frames) - 1].given =
                IF original.resolvedChildren # <<>>
                THEN SetPrim(@, CallerEntry.at, [original EXCEPT !.resolvedChildren = @ \o pushed])
                ELSE @,
            ![Len(frames) - 1].work = Tail(@)]

\* resolveAllReferences returns to an entry whose contribution is pushed
ReturnResolved ==
    /\ Returning
    /\ Contribution(CallerEntry.ref, Top.prims) # Undefined
    /\ frames' = ReturnTo(Contribution(CallerEntry.ref, Top.prims)[1])
    /\ UNCHANGED <<store, player, files, rootPath, rootContent, pc, errors, result, call, returned, parser>>

\* resolveAllReferences returns to an entry whose prim path is not found
ReturnInvalidPrimPath ==
    /\ Returning
    /\ Contribution(CallerEntry.ref, Top.prims) = Undefined
    /\ errors' = Append(errors, InvalidPrimPathError(Caller.currentFilePath,
                                    CallerEntry.ref.primPath[1], CallerEntry.ref.assetPath))
    /\ frames' = ReturnTo(<<>>)
    /\ UNCHANGED <<store, player, files, rootPath, rootContent, pc, result, call, returned, parser>>

\* the root call of resolveAllReferences returns: the inactive prims are
\* filtered out and parseAndResolve returns
Finish ==
    /\ pc = "resolving" /\ Top.work = <<>> /\ Len(frames) = 1
    /\ result' = ReturnRoot(errors, Top.prims)
    /\ pc' = "done"
    /\ UNCHANGED <<store, player, files, rootPath, rootContent, frames, errors, call, returned, parser>>

Next ==
    \/ ParseRoot
    \/ ParseRootThrows
    \/ CircularReference
    \/ MissingFile
    \/ SkipInactiveFile
    \/ ParseReferencedThrows
    \/ EnterFile
    \/ ReturnResolved
    \/ ReturnInvalidPrimPath
    \/ Finish

Spec == Init /\ [][Next]_vars

----------------------------------------------------------------------------
(* The pure functions, each called on its own.  call holds the function and *)
(* its arguments, drawn from bounded sets of what the program can pass;     *)
(* returned holds what the call returned.                                   *)

Whole(n) == [nan |-> FALSE, m |-> n, e |-> 0]
Tenths(n) == Normalize([nan |-> FALSE, m |-> n, e |-> 1])

\* the most samples a time-samples Map holds
MaxSamples == 3
\* the last frame of the timeline; frames run from -1 in steps of a half
MaxFrame == 5

SampleTimes == {Whole(0), Whole(1), Tenths(25), Whole(4)}
ScalarValues == {Whole(2), Tenths(-15), NaN}
Vector3Values == {<<Whole(1), Whole(-2), Tenths(5)>>, <<Whole(3), NaN, Whole(1)>>}
Frames == {Quotient(n, 2) : n \in -2..(2 * MaxFrame)}

\* every Map from up to MaxSamples of the times to the values, in every
\* insertion order
SampleMaps(values) ==
    UNION {{m \in [1..n -> [key : SampleTimes, value : values]] :
               \A j, k \in 1..n : j # k => m[j].key # m[k].key}
           : n \in 0..MaxSamples}

\* the most segments an asset path has
MaxSegments == 3

BasePaths == {MainPath, ModelPath, <<"/","a","/","b","/","c",".","u","s","d","a">>, <<"m","a","i","n",".","u","s","d","a">>, <<"m","o","d","e","l","s","/","c","u","b","e",".","u","s","d","a">>}
\* what stands between the slashes of an asset path; the empty one gives
\* paths such as a//b.usda and a/
SegmentTexts == {<<".">>, <<".",".">>, <<"a">>, <<"b",".","u","s","d","a">>, <<>>}
AssetPaths ==
    UNION {{Join(segments, <<"/">>) : segments \in [1..n -> SegmentTexts]} : n \in 0..MaxSegments}
    \cup UNION {{<<"/">> \o Join(segments, <<"/">>) : segments \in [1..n -> SegmentTexts \ {<<>>}]}
                : n \in 1..MaxSegments}

\* the most items a text is laid out from
MaxItems == 3
\* the most lines the body of a timeSamples block is laid out from
MaxBody == 2

\* What a text is laid out from: declarations on one line at an indentation,
\* a declaration at indentation 0 whose metadata clause spans three lines,
\* a closing brace and an attribute line.  The prim declared by item k is
\* named by k.
Items ==
    [kind : {"def"}, indent : {0, 2, 4}]
    \cup {[kind |-> "multi", indent |-> 0], [kind |-> "brace", indent |-> 0],
          [kind |-> "attribute", indent |-> 4]}
\* What a text with a timeSamples block is laid out from besides: the line
\* that opens the block of an attribute, and for its body sample lines and
\* a declaration.
Openings == [kind : {"opening"}, indent : {4}, attr : {"radius", "rotate"}]
BodyItems == [kind : {"sample"}, indent : {8}, text : 1..4] \cup {[kind |-> "def", indent |-> 8]}
Bodies == UNION {[1..n -> BodyItems] : n \in 0..MaxBody}
Heads == {<<>>, <<[kind |-> "def", indent |-> 0]>>}
Closings == {<<>>, <<[kind |-> "brace", indent |-> 4]>>}
Tails ==
    {<<>>, <<[kind |-> "attribute", indent |-> 4]>>, <<[kind |-> "def", indent |-> 2]>>,
     <<[kind |-> "brace", indent |-> 0], [kind |-> "def", indent |-> 2]>>}
BlockLayouts ==
    {head \o <<opening>> \o body \o closing \o tail :
        head \in Heads, opening \in Openings, body \in Bodies, closing \in Closings, tail \in Tails}
\* The metadata clauses a declaration is written with: one asset, two
\* assets after one another, a prim path, both fields, a field written
\* twice, a bracketed list and no asset at all.
MetadataClauses ==
    <<<<"r","e","f","e","r","e","n","c","e","s"," ","="," ","@",".","/","a",".","u","s","d","a","@">>,
      <<"r","e","f","e","r","e","n","c","e","s"," ","="," ","@",".","/","a",".","u","s","d","a","@",","," ","@",".","/","b",".","u","s","d","a","@">>,
      <<"r","e","f","e","r","e","n","c","e","s"," ","="," ","@",".","/","a",".","u","s","d","a","@","<","/","P",">",","," ","p","a","y","l","o","a","d"," ","="," ","@",".","/","b",".","u","s","d","a","@">>,
      <<"p","a","y","l","o","a","d"," ","="," ","@",".","/","b",".","u","s","d","a","@","<","/","Q",">"," ","r","e","f","e","r","e","n","c","e","s"," ","="," ","@",".","/","a",".","u","s","d","a","@"," ","r","e","f","e","r","e","n","c","e","s"," ","="," ","@",".","/","c",".","u","s","d","a","@">>,
      <<"r","e","f","e","r","e","n","c","e","s"," ","="," ","[","@",".","/","a",".","u","s","d","a","@",","," ","@",".","/","b",".","u","s","d","a","@","]">>,
      <<"p","a","y","l","o","a","d"," ","="," ","@",".","/","a",".","u","s","d","a","@","@",".","/","b",".","u","s","d","a","@">>,
      <<"a","c","t","i","v","e"," ","="," ","f","a","l","s","e">>,
      <<"p","a","y","l","o","a","d"," ","="," ","@",".","/","b",".","u","s","d","a","@",","," ","p","a","y","l","o","a","d"," ","="," ","@",".","/","c",".","u","s","d","a","@","<","/","R",">">>>>
\* What a text of declarations with metadata is laid out from: a
\* declaration on one line, and one whose clause spans three lines.
MetadataItems ==
    [kind : {"def"}, indent : {0, 2}, clause : DOMAIN MetadataClauses]
    \cup [kind : {"multi"}, indent : {0}, clause : DOMAIN MetadataClauses]
MetadataLayouts ==
    {<<item>> : item \in MetadataItems}
    \cup {<<item, [kind |-> "def", indent |-> 2, clause |-> clause]>> :
             item \in MetadataItems, clause \in DOMAIN MetadataClauses}
Layouts == UNION {[1..n -> Items] : n \in 0..MaxItems} \cup BlockLayouts \cup MetadataLayouts
Spaces(n) == [j \in 1..n |-> " "]
NameOf(k) == <<"P", <<"0", "1", "2", "3", "4", "5", "6", "7", "8", "9">>[k + 1]>>
SampleTexts == <<<<"0",":"," ","0",".","5",",">>, <<"0",":"," ","1",".","5">>, <<"2","4",":"," ","2",",">>, <<"0",":"," ","(","9","0",","," ","0",","," ","0",")",",">>>>
LinesOfItem(item, k) ==
    IF "clause" \in DOMAIN item
    THEN (IF item.kind = "def"
          THEN <<Spaces(item.indent) \o <<"d","e","f"," ","X","f","o","r","m"," ","\"">> \o NameOf(k) \o <<"\""," ","(">>
                 \o MetadataClauses[item.clause] \o <<")">>>>
          ELSE <<<<"d","e","f"," ","\"">> \o NameOf(k) \o <<"\""," ","(">>, <<" "," "," "," ">> \o MetadataClauses[item.clause], <<")">>>>)
    ELSE IF item.kind = "def" THEN <<Spaces(item.indent) \o <<"d","e","f"," ","X","f","o","r","m"," ","\"">> \o NameOf(k) \o <<"\"">>>>
    ELSE IF item.kind = "multi"
    THEN <<<<"d","e","f"," ","\"">> \o NameOf(k) \o <<"\""," ","(">>, <<" "," "," "," ","a","c","t","i","v","e"," ","="," ","t","r","u","e">>, <<")">>>>
    ELSE IF item.kind = "brace" THEN <<Spaces(item.indent) \o <<"}">>>>
    ELSE IF item.kind = "opening"
    THEN <<Spaces(item.indent)
           \o (IF item.attr = "radius" THEN <<"d","o","u","b","l","e"," ","r","a","d","i","u","s",".","t","i","m","e","S","a","m","p","l","e","s"," ","="," ","{">>
               ELSE <<"f","l","o","a","t","3"," ","x","f","o","r","m","O","p",":","r","o","t","a","t","e","X","Y","Z",".","t","i","m","e","S","a","m","p","l","e","s"," ","="," ","{">>)>>
    ELSE IF item.kind = "sample" THEN <<Spaces(item.indent) \o SampleTexts[item.text]>>
    ELSE <<Spaces(item.indent) \o <<"d","o","u","b","l","e"," ","r","a","d","i","u","s"," ","="," ","2">>>>
RECURSIVE LinesFrom(_, _)
LinesFrom(layout, k) ==
    IF k > Len(layout) THEN <<>> ELSE LinesOfItem(layout[k], k) \o LinesFrom(layout, k + 1)
ContentOf(layout) == Join(LinesFrom(layout, 1), <<"\n">>)

\* the most root prims of a forest searched by prim path
MaxRoots == 2

\* The forests findPrimByPath is called on: root prims named A or B, each
\* with no child, one child or two children of one name.  Every prim has a
\* radius of its own, by which two prims of one name are told apart.
PrimNames == {<<"A">>, <<"B">>}
ChildNames == {<<>>, <<<<"A">>>>, <<<<"B">>>>, <<<<"B">>, <<"B">>>>}
Tagged(name, n, children) ==
    [NewPrim(Some(<<"X","f","o","r","m">>), name, Undefined, <<>>, <<>>)
        EXCEPT !.radius = Some(Whole(n)), !.children = children]
ForestOfNames(roots) ==
    [j \in 1..Len(roots) |->
        Tagged(roots[j].name, 10 * j,
               [k \in 1..Len(roots[j].children) |-> Tagged(roots[j].children[k], 10 * j + k, <<>>)])]
NamedForests ==
    UNION {{ForestOfNames(roots) : roots \in [1..n -> [name : PrimNames, children : ChildNames]]}
           : n \in 0..MaxRoots}
\* the prim paths: up to three names, written with a leading slash
SegmentLists == UNION {[1..n -> PrimNames] : n \in 0..3}

\* The prims PrimMesh is called on: a prim of a type with, for one attribute
\* or for all seven, a static value or none and a Map of time samples or
\* none; the Map is empty, has one sample or has two in either order.
DisplayTypes == {<<"S","p","h","e","r","e">>, <<"C","u","b","e">>, <<"X","f","o","r","m">>}
VectorAttributes == {"position", "rotation", "scale", "color"}
ScalarAttributes == {"radius", "size", "height"}
SamplesField ==
    [position |-> "positionTimeSamples", rotation |-> "rotationTimeSamples",
     scale |-> "scaleTimeSamples", color |-> "colorTimeSamples",
     radius |-> "radiusTimeSamples", size |-> "sizeTimeSamples", height |-> "heightTimeSamples"]
StaticChoices(attr) ==
    IF attr \in VectorAttributes THEN {Undefined, Some(<<Whole(1), Whole(-2), Tenths(5)>>)}
    ELSE {Undefined, Some(Whole(2))}
SampleChoices(attr) ==
    IF attr \in VectorAttributes
    THEN {Undefined, Some(<<>>),
          Some(<<[key |-> Whole(4), value |-> <<Whole(4), Whole(8), Whole(-4)>>]>>),
          Some(<<[key |-> Whole(4), value |-> <<Whole(4), Whole(8), Whole(-4)>>],
                 [key |-> Whole(0), value |-> <<Whole(0), Whole(0), Tenths(5)>>]>>)}
    ELSE {Undefined, Some(<<>>),
          Some(<<[key |-> Whole(4), value |-> Tenths(5)]>>),
          Some(<<[key |-> Whole(4), value |-> Tenths(5)], [key |-> Whole(0), value |-> Whole(3)]>>)}
RECURSIVE WithAttributes(_, _, _, _)
\* the prim with the attributes of a set given the n-th static and sample
\* choices
WithAttributes(prim, attrs, static, samples) ==
    IF attrs = {} THEN prim
    ELSE LET attr == CHOOSE a \in attrs : TRUE
         IN WithAttributes([prim EXCEPT ![attr] = IF static THEN CHOOSE v \in StaticChoices(attr) : v # Undefined
                                                  ELSE Undefined,
                                        ![SamplesField[attr]] =
                                            IF samples = 0 THEN Undefined
                                            ELSE CHOOSE v \in SampleChoices(attr) : v # Undefined /\ Len(v[1]) = samples - 1],
                           attrs \ {attr}, static, samples)
DisplayPrims ==
    {WithAttributes(NewPrim(Some(type), <<"P">>, Undefined, <<>>, <<>>), attrs, static, samples) :
        type \in DisplayTypes,
        attrs \in {{a} : a \in VectorAttributes \cup ScalarAttributes}
                   \cup {VectorAttributes \cup ScalarAttributes},
        static \in BOOLEAN, samples \in 0..3}
DisplayFrames == {Quotient(-1, 1), Quotient(1, 1), Quotient(5, 2), Quotient(4, 1), Quotient(6, 1)}

Calls ==
    [fn : {"interpolateValue"}, timeSamples : SampleMaps(ScalarValues), frame : Frames]
    \cup [fn : {"interpolateVector3"}, timeSamples : SampleMaps(Vector3Values), frame : Frames]
    \cup [fn : {"resolveRelativePath"}, basePath : BasePaths, relativePath : AssetPaths]
    \cup {[fn |-> "findPrimByPath", prims |-> prims, segments |-> segments,
           path |-> <<"/">> \o Join(segments, <<"/">>)] : prims \in NamedForests, segments \in SegmentLists}
    \cup [fn : {"PrimMesh"}, prim : DisplayPrims, currentFrame : DisplayFrames]
    \cup {[fn |-> "parseUsda", content |-> ContentOf(layout), layout |-> layout] : layout \in Layouts}

CallInit ==
    /\ call \in Calls
    /\ returned = Undefined
    /\ parser = IF call.fn = "parseUsda" THEN [i |-> 1, prims |-> <<>>, stack |-> <<>>]
                ELSE Undefined
    /\ files = <<>>
    /\ rootPath = MainPath
    /\ rootContent = Undefined
    /\ pc = "idle"
    /\ frames = <<>>
    /\ errors = <<>>
    /\ result = NoResult
    /\ store = InitialStore
    /\ player = InitialPlayer

Calling(fn) == call.fn = fn /\ returned = Undefined

CallInterpolateValue ==
    /\ Calling("interpolateValue")
    /\ returned' = Some(interpolateValue(call.timeSamples, call.frame))
    /\ UNCHANGED <<store, player, files, rootPath, rootContent, pc, frames, errors, result, call, parser>>

CallInterpolateVector3 ==
    /\ Calling("interpolateVector3")
    /\ returned' = Some(interpolateVector3(call.timeSamples, call.frame))
    /\ UNCHANGED <<store, player, files, rootPath, rootContent, pc, frames, errors, result, call, parser>>

CallResolveRelativePath ==
    /\ Calling("resolveRelativePath")
    /\ returned' = Some(resolveRelativePath(call.basePath, call.relativePath))
    /\ UNCHANGED <<store, player, files, rootPath, rootContent, pc, frames, errors, result, call, parser>>

CallFindPrimByPath ==
    /\ Calling("findPrimByPath")
    /\ returned' = Some(findPrimByPath(call.prims, call.path))
    /\ UNCHANGED <<store, player, files, rootPath, rootContent, pc, frames, errors, result, call, parser>>

CallPrimMesh ==
    /\ Calling("PrimMesh")
    /\ returned' = Some(PrimMesh(call.prim, call.currentFrame))
    /\ UNCHANGED <<store, player, files, rootPath, rootContent, pc, frames, errors, result, call, parser>>

\* one iteration of the loop of parseUsda over the lines
ParseUsdaLine ==
    /\ Calling("parseUsda")
    /\ parser.i <= Len(Split(call.content, "\n"))
    /\ parser' = ParseLine(parser, call.content, Split(call.content, "\n"))
    /\ UNCHANGED <<store, player, files, rootPath, rootContent, pc, frames, errors, result, call, returned>>

\* the loop is over: parseUsda returns the root prims
ParseUsdaReturns ==
    /\ Calling("parseUsda")
    /\ parser.i > Len(Split(call.content, "\n"))
    /\ returned' = Some(parser.prims)
    /\ UNCHANGED <<store, player, files, rootPath, rootContent, pc, frames, errors, result, call, parser>>

CallNext ==
    \/ CallInterpolateValue
    \/ CallInterpolateVector3
    \/ CallResolveRelativePath
    \/ CallFindPrimByPath
    \/ CallPrimMesh
    \/ ParseUsdaLine
    \/ ParseUsdaReturns

CallSpec == CallInit /\ [][CallNext]_vars

\* parseUsda called on its own, with no call left between two lines or
\* before its return: while the call has not returned a step is taken again
\* and again (weak fairness of the loop, written with the condition under
\* which an iteration or the return can be taken).
ParseUsdaInit == CallInit /\ call.fn = "parseUsda"
ParseUsdaNext == ParseUsdaLine \/ ParseUsdaReturns
ParseUsdaSpec ==
    /\ ParseUsdaInit /\ [][ParseUsdaNext]_vars
    /\ ([]<>(returned # Undefined) \/ []<><<ParseUsdaNext>>_vars)

----------------------------------------------------------------------------
(* The workspace store under calls of its operations.  Any number of calls  *)
(* is made between two renders; a render hands out callbacks that hold the   *)
(* openFilePaths of that render.                                             *)

\* the most tabs the calls are let to open
MaxTabs == 3

\* the paths the operations are called with: two files of the workspace and
\* a path that is no file at first, written without its slash
PathArguments == {MainPath, ModelPath, <<"b",".","u","s","d","a">>}

StoreInit ==
    /\ store = InitialStore
    /\ player = InitialPlayer
    /\ call = NoCall
    /\ returned = Undefined
    /\ parser = Undefined
    /\ files = <<>>
    /\ rootPath = MainPath
    /\ rootContent = Undefined
    /\ pc = "idle"
    /\ frames = <<>>
    /\ errors = <<>>
    /\ result = NoResult

CreateFile ==
    /\ \E path \in PathArguments :
          /\ Len(createFile(store, path).openFilePaths) <= MaxTabs
          /\ store' = createFile(store, path)
    /\ UNCHANGED <<player, files, rootPath, rootContent, pc, frames, errors, result, call, returned, parser>>

DeleteFile ==
    /\ \E path \in PathArguments : store' = deleteFile(store, path)
    /\ UNCHANGED <<player, files, rootPath, rootContent, pc, frames, errors, result, call, returned, parser>>

RenameFile ==
    /\ \E oldPath \in PathArguments : \E newPath \in PathArguments :
          store' = renameFile(store, oldPath, newPath)
    /\ UNCHANGED <<player, files, rootPath, rootContent, pc, frames, errors, result, call, returned, parser>>

OpenFile ==
    /\ \E path \in PathArguments :
          /\ Len(openFile(store, path).openFilePaths) <= MaxTabs
          /\ store' = openFile(store, path)
    /\ UNCHANGED <<player, files, rootPath, rootContent, pc, frames, errors, result, call, returned, parser>>

CloseFile ==
    /\ \E path \in PathArguments : store' = closeFile(store, path)
    /\ UNCHANGED <<player, files, rootPath, rootContent, pc, frames, errors, result, call, returned, parser>>

\* the provider renders with the state the calls have led to, and the
\* callbacks of deleteFile and closeFile are created anew with it
Render ==
    /\ store.captured # store.openFilePaths
    /\ store' = [store EXCEPT !.captured = store.openFilePaths]
    /\ UNCHANGED <<player, files, rootPath, rootContent, pc, frames, errors, result, call, returned, parser>>

StoreNext ==
    \/ CreateFile
    \/ DeleteFile
    \/ RenameFile
    \/ OpenFile
    \/ CloseFile
    \/ Render

StoreSpec == StoreInit /\ [][StoreNext]_vars

----------------------------------------------------------------------------
(* The viewer under frame ticks, the timeline controls, the record button   *)
(* and edits of the content.                                                 *)

PlayerInit ==
    /\ player = InitialPlayer
    /\ store = InitialStore
    /\ call = NoCall
    /\ returned = Undefined
    /\ parser = Undefined
    /\ files = <<>>
    /\ rootPath = MainPath
    /\ rootContent = Undefined
    /\ pc = "idle"
    /\ frames = <<>>
    /\ errors = <<>>
    /\ result = NoResult

\* the record button, live while no recording runs
HandleRecordVideo ==
    /\ ~player.isRecording
    /\ player' = handleRecordVideo(player)
    /\ UNCHANGED <<store, files, rootPath, rootContent, pc, frames, errors, result, call, returned, parser>>

\* a frame of the render loop
UseFrame ==
    /\ \E step \in FrameSteps : player' = useFrame(player, step)
    /\ UNCHANGED <<store, files, rootPath, rootContent, pc, frames, errors, result, call, returned, parser>>

\* the play/stop button shows Play while not playing
HandlePlay ==
    /\ hasAnimation(player) /\ ~player.isPlaying
    /\ player' = handlePlay(player)
    /\ UNCHANGED <<store, files, rootPath, rootContent, pc, frames, errors, result, call, returned, parser>>

HandleStop ==
    /\ hasAnimation(player) /\ player.isPlaying
    /\ player' = handleStop(player)
    /\ UNCHANGED <<store, files, rootPath, rootContent, pc, frames, errors, result, call, returned, parser>>

HandleReset ==
    /\ hasAnimation(player)
    /\ player' = handleReset(player)
    /\ UNCHANGED <<store, files, rootPath, rootContent, pc, frames, errors, result, call, returned, parser>>

\* the slider, from startFrame to endFrame
HandleFrameChange ==
    /\ hasAnimation(player)
    /\ \E frame \in player.content.startFrame..player.content.endFrame :
          player' = handleFrameChange(player, frame)
    /\ UNCHANGED <<store, files, rootPath, rootContent, pc, frames, errors, result, call, returned, parser>>

HandleChange ==
    /\ \E content \in ViewerContents : player' = handleChange(player, content)
    /\ UNCHANGED <<store, files, rootPath, rootContent, pc, frames, errors, result, call, returned, parser>>

PlayerNext ==
    \/ HandleRecordVideo
    \/ UseFrame
    \/ HandlePlay
    \/ HandleStop
    \/ HandleReset
    \/ HandleFrameChange
    \/ HandleChange

\* The frame ticks are fair: the render loop calls the callback of useFrame
\* again and again, so that a playback that is never stopped does not stand
\* still (written with the condition under which a tick changes the state).
PlayerSpec ==
    /\ PlayerInit /\ [][PlayerNext]_vars
    /\ ([]<>(~(player.isPlaying /\ hasAnimation(player))) \/ []<><<UseFrame>>_vars)

----------------------------------------------------------------------------
(* What the properties below are stated with: the file map and the root    *)
(* content read as a graph of entries, and the composition of a file       *)
(* written as a recursive function of that graph.                          *)

Done == pc = "done"
\* parseAndResolve returned from its try block
Composed == pc = "done" /\ ~ParseThrows(rootContent)
\* the forest resolveAllReferences returned to parseAndResolve
RootForest == frames[1].prims

\* the content resolved as the file at a path
TextOf(path) == IF path = rootPath THEN rootContent ELSE files[path].content
ForestOf(path) == ParsedTexts[TextOf(path)[1]]
\* the entries declared in the file at a path
EntriesIn(path) == IF TextOf(path) = Undefined THEN <<>> ELSE EntriesOfPrims(ForestOf(path), <<>>, 1)
TargetOf(path, entry) == resolveRelativePath(path, entry.ref.assetPath)
TargetsOf(path) == {TargetOf(path, EntriesIn(path)[k]) : k \in 1..Len(EntriesIn(path))}

\* a file of the map that is active and holds a text
Usable(path) == path \in DOMAIN files /\ files[path].active /\ files[path].content # Undefined

RECURSIVE ReachedFrom(_)
\* the paths in S and the usable files their entries lead to, however far
ReachedFrom(S) ==
    LET more == S \cup {q \in DOMAIN files : Usable(q) /\ \E p \in S : q \in TargetsOf(p)}
    IN IF more = S THEN S ELSE ReachedFrom(more)

\* file A uses a usable file other than itself from which an entry leads
\* back to A, directly or through further files
LeadsBack(A) == \E B \in ReachedFrom({A}) \ {A} : A \in TargetsOf(B)

RECURSIVE ComposePrims(_, _, _)
RECURSIVE GivenAll(_, _, _)
\* the forest prims of the file at path, composed: every prim gets, from its
\* references and then its payloads, what each entry gives
Given(ref, path, visited) ==
    LET target == resolveRelativePath(path, ref.assetPath)
        forest == ComposePrims(ForestOf(target), target, visited \cup {target})
        found  == findPrimByPath(forest, ref.primPath[1])
    IN IF target \in visited \/ ~Usable(target) THEN <<>>
       ELSE IF ref.primPath = Undefined THEN forest
       ELSE IF found = Undefined THEN <<>> ELSE <<found[1]>>
GivenAll(refs, path, visited) ==
    IF refs = <<>> THEN <<>>
    ELSE Given(Head(refs), path, visited) \o GivenAll(Tail(refs), path, visited)
ComposePrims(prims, path, visited) ==
    [j \in 1..Len(prims) |->
        [prims[j] EXCEPT
            !.children = ComposePrims(@, path, visited),
            !.resolvedChildren = @ \o GivenAll(prims[j].references, path, visited)
                                   \o GivenAll(prims[j].payloads, path, visited)]]

\* the errors of a list that have a type, and those recorded for a file
OfType(errs, type) == {k \in 1..Len(errs) : errs[k].type = type}
OfTypeIn(errs, type, path) == {k \in OfType(errs, type) : errs[k].filePath = path}
\* the entries of the root content, by their place in resolution order
RootEntries == 1..Len(EntriesIn(rootPath))
RootEntry(k) == EntriesIn(rootPath)[k]
RootTarget(k) == TargetOf(rootPath, RootEntry(k))
\* the prim of the resolved root forest that holds a root entry
Holder(k) == GetPrim(RootForest, RootEntry(k).at)
\* what the entries of a prim give it, references first
GivenTo(prim, path, visited) ==
    GivenAll(prim.references, path, visited) \o GivenAll(prim.payloads, path, visited)

RECURSIVE ErrorsOfWork(_, _, _, _)
\* how many errors of a type the loop records for one entry of the file at
\* path and all that the entry makes it resolve: the entry's target is on
\* the chain, or else no key of the map, or else inactive, or else a record
\* without a text, or else entered
ErrorsOfEntry(type, entry, path, visited) ==
    LET target == TargetOf(path, entry)
        one(t) == IF type = t THEN 1 ELSE 0
    IN IF target \in visited THEN one("circular_reference")
       ELSE IF target \notin DOMAIN files THEN one("missing_file")
       ELSE IF ~files[target].active THEN 0
       ELSE IF files[target].content = Undefined THEN one("parse_error")
       ELSE ErrorsOfWork(type, EntriesIn(target), target, visited \cup {target})
            + (IF /\ entry.ref.primPath # Undefined
                  /\ findPrimByPath(ForestOf(target), entry.ref.primPath[1]) = Undefined
               THEN one("invalid_prim_path") ELSE 0)
ErrorsOfWork(type, work, path, visited) ==
    IF work = <<>> THEN 0
    ELSE ErrorsOfEntry(type, Head(work), path, visited)
         + ErrorsOfWork(type, Tail(work), path, visited)
\* how many errors of a type a call of parseAndResolve that parses its root
\* content records
ErrorsDue(type) == ErrorsOfWork(type, EntriesIn(rootPath), rootPath, {rootPath})

\* the target an error was recorded for, read from its message and the file
\* it was recorded in (<<>> for the error of the root content)
ErrorTarget(error) ==
    IF error.type \in {"circular_reference", "missing_file"} THEN error.message[4]
    ELSE IF error.type = "invalid_prim_path"
    THEN resolveRelativePath(error.filePath, error.message[4])
    ELSE IF Len(error.message) = 4 THEN resolveRelativePath(error.filePath, error.message[2])
    ELSE <<>>
InactiveInMap(path) == path \in DOMAIN files /\ ~files[path].active

RECURSIVE AllPrims(_)
\* the prims of a forest at any depth, through children and resolvedChildren
AllPrims(prims) ==
    UNION {{prims[j]} \cup AllPrims(prims[j].children) \cup AllPrims(prims[j].resolvedChildren)
           : j \in 1..Len(prims)}

RECURSIVE ErrorsOfEntries(_, _, _)
\* the errors the loop records, in order, for the entries work of the file
\* at path and for all that they make it resolve
ErrorsOfOneEntry(entry, path, visited) ==
    LET target == TargetOf(path, entry)
    IN IF target \in visited THEN <<CircularError(entry.kind, path, target)>>
       ELSE IF target \notin DOMAIN files
       THEN <<MissingError(entry.kind, path, entry.ref.assetPath, target)>>
       ELSE IF ~files[target].active THEN <<>>
       ELSE IF files[target].content = Undefined
       THEN <<ReferencedParseError(entry.kind, path, entry.ref.assetPath)>>
       ELSE ErrorsOfEntries(EntriesIn(target), target, visited \cup {target})
            \o (IF /\ entry.ref.primPath # Undefined
                   /\ findPrimByPath(ForestOf(target), entry.ref.primPath[1]) = Undefined
                THEN <<InvalidPrimPathError(path, entry.ref.primPath[1], entry.ref.assetPath)>>
                ELSE <<>>)
ErrorsOfEntries(work, path, visited) ==
    IF work = <<>> THEN <<>>
    ELSE ErrorsOfOneEntry(Head(work), path, visited)
         \o ErrorsOfEntries(Tail(work), path, visited)

----------------------------------------------------------------------------
(* The claims *)

\* the paths of the frames are pairwise different and there are no more
\* nested resolutions than the map has files
DepthBounded ==
    /\ \A j, k \in 1..Len(frames) : frames[j].currentFilePath = frames[k].currentFilePath => j = k
    /\ \A k \in 2..Len(frames) : frames[k].currentFilePath \in DOMAIN files
    /\ Len(frames) <= 1 + Cardinality(DOMAIN files)

RECURSIVE StepsOfWork(_, _, _)
\* the steps the loop takes for one entry of the file at path: one for an
\* entry that is skipped, and for one that is entered the entering, the
\* steps of the entered file and the return
StepsOfEntry(entry, path, visited) ==
    LET target == TargetOf(path, entry)
    IN IF target \in visited \/ ~Usable(target) THEN 1
       ELSE 2 + StepsOfWork(EntriesOfPrims(ParsedTexts[files[target].content[1]], <<>>, 1),
                            target, visited \cup {target})
StepsOfWork(work, path, visited) ==
    IF work = <<>> THEN 0
    ELSE StepsOfEntry(Head(work), path, visited) + StepsOfWork(Tail(work), path, visited)

RECURSIVE StepsOfFrames(_, _)
\* the steps left to the frames 1..k of a call stack: the top frame has its
\* whole work to do, a frame below has the return to the entry that called
\* and the rest
StepsOfFrames(stack, k) ==
    IF k = 0 THEN 0
    ELSE StepsOfFrames(stack, k - 1)
         + (IF k = Len(stack)
            THEN StepsOfWork(stack[k].work, stack[k].currentFilePath, stack[k].visitedPaths)
            ELSE 1 + StepsOfWork(Tail(stack[k].work), stack[k].currentFilePath,
                                 stack[k].visitedPaths))

\* the number of steps parseAndResolve has left at a position and a call
\* stack, read off the file map
StepsLeft(position, stack) ==
    IF position = "done" THEN 0
    ELSE IF position = "start"
    THEN (IF ParseThrows(rootContent) THEN 1
          ELSE 2 + StepsOfWork(EntriesIn(rootPath), rootPath, {rootPath}))
    ELSE 1 + StepsOfFrames(stack, Len(stack))

\* a call that has not returned has a step to take
CanStep ==
    \/ pc = "start"
    \/ AtEntry /\ EntryOutcome(ContextOf(Top), AbsolutePath)
                    \in {"circular_reference", "missing_file", "inactive", "parse"}
    \/ pc = "resolving" /\ Top.work = <<>>

\* C1: for every file map, root path and root content parseAndResolve
\* terminates: a call that has not returned can take a step, and every step
\* takes one off a number of steps left that the file map fixes.  Along a
\* chain of nested resolutions every absolute path is entered at most once,
\* so the nesting depth of referenced-file resolutions never exceeds the
\* number of files in the map.
C1_Terminates ==
    /\ [](DepthBounded /\ (Done \/ CanStep))
    /\ [][\A position \in {pc'}, stack \in {frames'} :
            StepsLeft(position, stack) = StepsLeft(pc, frames) - 1]_vars

\* C1 witness: a chain as deep as the map has files, three of them, stands
\* at an entry that leads back into the chain.
C1_Witness ==
    /\ AtEntry
    /\ Len(frames) = 4
    /\ Cardinality(DOMAIN files) = 3
    /\ AbsolutePath \in Top.visitedPaths

\* C2 as stated: when the root file A uses a file from which an entry leads
\* back to A, directly or through further files, the error list returned
\* contains exactly one circular_reference error.
C2_ExactlyOneCircular ==
    (Composed /\ LeadsBack(rootPath))
        => Cardinality(OfType(result.errors, "circular_reference")) = 1

\* C2 amended: the error list returned holds one circular_reference error for
\* every entry reached whose target is on its chain of nested resolutions,
\* and so at least one when an entry leads back to the root file A.
C2_OneCircularPerClosingEntry ==
    Composed =>
        /\ Cardinality(OfType(result.errors, "circular_reference")) = ErrorsDue("circular_reference")
        /\ LeadsBack(rootPath) => OfType(result.errors, "circular_reference") # {}

\* C2 witness: a call returned with two chains that lead back to the root
\* file, one of them through a further file.
C2_Witness ==
    /\ Composed
    /\ LeadsBack(rootPath)
    /\ Cardinality(OfType(result.errors, "circular_reference")) >= 2
    /\ \E k \in OfType(result.errors, "circular_reference") :
          /\ ErrorTarget(result.errors[k]) = rootPath
          /\ \E B \in DOMAIN files : B # result.errors[k].filePath /\ B \in TargetsOf(rootPath)
                                     /\ result.errors[k].filePath \notin TargetsOf(rootPath)

\* the root entries that point at the file at path B
UsesOf(B) == {k \in RootEntries : RootTarget(k) = B}
\* two or more entries of the root file A point at the active file B, and
\* no entry of B or of a file B leads to points back at A
RepeatedUse(B) ==
    /\ B # rootPath
    /\ Usable(B)
    /\ Cardinality(UsesOf(B)) >= 2
    /\ \A C \in ReachedFrom({B}) : rootPath \notin TargetsOf(C)
\* B's prims as an entry asks for them: the composed root prims of B, or the
\* one its prim path names
PrimsOf(B, ref) ==
    LET forest == ComposePrims(ForestOf(B), B, {rootPath, B})
        found  == findPrimByPath(forest, ref.primPath[1])
    IN IF ref.primPath = Undefined THEN forest
       ELSE IF found = Undefined THEN <<>> ELSE <<found[1]>>
\* every entry of the root file that points at B is resolved: the prim that
\* holds it has B's prims in its resolvedChildren, first if the entry is the
\* prim's reference and last if it is the prim's payload
UsesResolved(B) ==
    \A k \in UsesOf(B) :
        LET children == Holder(k).resolvedChildren
            got      == PrimsOf(B, RootEntry(k).ref)
        IN /\ Len(got) <= Len(children)
           /\ got = IF RootEntry(k).kind = "reference"
                    THEN SubSeq(children, 1, Len(got))
                    ELSE SubSeq(children, Len(children) - Len(got) + 1, Len(children))

C4_NeverRaises ==
    /\ Done \/ CanStep
    /\ Done =>
        /\ ~result.raised
        /\ {"prims", "errors"} \subseteq DOMAIN result
        /\ ParseThrows(rootContent) =>
              /\ result.prims = <<>>
              /\ Len(result.errors) = 1
              /\ result.errors[1].type = "parse_error"
              /\ result.errors[1].filePath = rootPath

\* C4 witness: a call whose root content made the parser throw has returned.
C4_Witness ==
    /\ Done
    /\ ParseThrows(rootContent)
    /\ result.errors = <<RootParseError(rootPath)>>
    /\ files # <<>>

IsKept(prim) == prim.active # Some(FALSE)
RECURSIVE KeptOf(_)
\* a forest without the prims declared inactive and all below them
KeptOf(prims) ==
    LET kept == SelectSeq(prims, IsKept)
    IN [j \in 1..Len(kept) |->
           [kept[j] EXCEPT !.children = KeptOf(@), !.resolvedChildren = KeptOf(@)]]

\* C5: in the forest parseAndResolve returns no prim at any depth, reached
\* through children or resolvedChildren, has active equal to false: the
\* forest is the resolved forest without the prims declared inactive and
\* their subtrees, every other prim under kept ancestors being kept.
C5_NoInactivePrim ==
    Composed =>
        /\ \A prim \in AllPrims(result.prims) : prim.active # Some(FALSE)
        /\ result.prims = KeptOf(RootForest)

\* C5 witness: the resolved forest had an inactive prim with a child among
\* the resolvedChildren of a root prim and an inactive root prim, and the
\* forest returned keeps a prim declared active.
C5_Witness ==
    /\ Composed
    /\ \E j \in 1..Len(RootForest) : RootForest[j].active = Some(FALSE)
    /\ \E j \in 1..Len(RootForest) :
          \E prim \in AllPrims(RootForest[j].resolvedChildren) :
              prim.active = Some(FALSE) /\ prim.children # <<>>
    /\ \E prim \in AllPrims(result.prims) : prim.active = Some(TRUE)

\* the root entries whose absolute path is no key of the file map
MissingUses == {k \in RootEntries : RootTarget(k) \notin DOMAIN files}

\* C6 as stated: an entry whose absolute path is not a key of the file map
\* records exactly one missing_file error: the root file has as many
\* missing_file errors as it has such entries.
C6_MissingFileForEveryAbsentPath ==
    Composed =>
        Cardinality(OfTypeIn(result.errors, "missing_file", rootPath)) = Cardinality(MissingUses)

\* C6 amended: an entry whose absolute path is not a key of the file map and
\* not on the entry's chain of nested resolutions records exactly one
\* missing_file error and appends nothing to the prim's resolvedChildren, and
\* composition goes on: the prim that holds it has what its other entries
\* give, and so has every other prim of the file.
C6_MissingFileSkipsEntry ==
    Composed =>
        /\ Cardinality(OfTypeIn(result.errors, "missing_file", rootPath))
             = Cardinality({k \in MissingUses : RootTarget(k) # rootPath})
        /\ Cardinality(OfType(result.errors, "missing_file")) = ErrorsDue("missing_file")
        /\ MissingUses # {} =>
              \A k \in RootEntries :
                  Holder(k).resolvedChildren = GivenTo(Holder(k), rootPath, {rootPath})

\* C6 witness: a prim of the root file has a reference to a path the map
\* lacks and a payload that is resolved, and a prim outside it is resolved
\* as well.
C6_Witness ==
    /\ Composed
    /\ \E k \in MissingUses :
          /\ RootTarget(k) # rootPath
          /\ Holder(k).resolvedChildren # <<>>
          /\ \E e \in OfTypeIn(result.errors, "missing_file", rootPath) :
                ErrorTarget(result.errors[e]) = RootTarget(k)
          /\ \E j \in RootEntries :
                RootEntry(j).at # RootEntry(k).at /\ Holder(j).resolvedChildren # <<>>

\* the root entries whose target is a file of the map with active = false
InactiveUses == {k \in RootEntries : InactiveInMap(RootTarget(k))}

\* C7 as stated: for an entry whose target file is in the file map with
\* active = false no error of any type is recorded.
C7_NoErrorForInactiveTarget ==
    \A k \in 1..Len(errors) : ~InactiveInMap(ErrorTarget(errors[k]))

\* C7 amended: an entry whose target file is in the file map with
\* active = false, and is not on the entry's chain of nested resolutions, is
\* skipped silently: no error is recorded for it (the one error ever recorded
\* for an inactive target is the circular_reference of an entry that leads
\* back to the root file), nothing is appended to resolvedChildren, and the
\* inactive file is never entered, so no error is recorded in it either.
C7_InactiveFileSkipped ==
    /\ \A k \in 2..Len(frames) : ~InactiveInMap(frames[k].currentFilePath)
    /\ \A k \in 1..Len(errors) :
          /\ errors[k].filePath = rootPath \/ ~InactiveInMap(errors[k].filePath)
          /\ InactiveInMap(ErrorTarget(errors[k]))
                => errors[k].type = "circular_reference" /\ ErrorTarget(errors[k]) = rootPath
    /\ (Composed /\ InactiveUses # {}) =>
          /\ \A k \in InactiveUses :
                Holder(k).resolvedChildren = GivenTo(Holder(k), rootPath, {rootPath})
          /\ \A type \in {"circular_reference", "missing_file", "parse_error", "invalid_prim_path"} :
                Cardinality(OfType(result.errors, type)) = ErrorsDue(type)

\* C7 witness: every entry of the root file points at an inactive file that
\* has entries of its own, and the call returned without an error and with
\* nothing resolved.
C7_Witness ==
    /\ Composed
    /\ RootEntries # {}
    /\ InactiveUses = RootEntries
    /\ \A k \in InactiveUses :
          /\ RootTarget(k) # rootPath
          /\ files[RootTarget(k)].content # Undefined
          /\ EntriesIn(RootTarget(k)) # <<>>
          /\ Holder(k).resolvedChildren = <<>>
    /\ result.errors = <<>>

\* C8: for a target file that is entered, an entry without primPath appends
\* a clone of every root prim of the resolved file, in file order, an entry
\* with primPath appends the one prim at that path when it is found and
\* otherwise nothing, recording exactly one invalid_prim_path error, and the
\* contributions of references precede those of payloads: a file that has
\* been gone through is its forest composed in that way, and the errors
\* returned hold one invalid_prim_path error for every entry entered whose
\* prim path is not found.
C8_Contributions ==
    /\ (pc = "resolving" /\ Top.work = <<>>) =>
          Top.prims = ComposePrims(ForestOf(Top.currentFilePath), Top.currentFilePath,
                                   Top.visitedPaths)
    /\ Composed =>
          Cardinality(OfType(result.errors, "invalid_prim_path")) = ErrorsDue("invalid_prim_path")

\* C8 witness: a prim of the root file has the prim its reference names
\* followed by the two root prims its payload brings, and another entry of
\* the root file names a prim path its file has not.
C8_Witness ==
    /\ Composed
    /\ \E j, k \in RootEntries :
          /\ RootEntry(j).at = RootEntry(k).at
          /\ RootEntry(j).kind = "reference" /\ RootEntry(j).ref.primPath # Undefined
          /\ RootEntry(k).kind = "payload" /\ RootEntry(k).ref.primPath = Undefined
          /\ Usable(RootTarget(k)) /\ Len(ForestOf(RootTarget(k))) = 2
          /\ Len(Holder(k).resolvedChildren) = 3
          /\ Holder(k).resolvedChildren[1].name = Holder(k).resolvedChildren[2].name
    /\ \E e \in OfTypeIn(result.errors, "invalid_prim_path", rootPath) :
          Usable(ErrorTarget(result.errors[e]))


C10_MultilineDefAtAnyIndent ==
    (pc = "resolving" /\ rootContent = Some(MainReadme)) =>
        /\ Len(frames[1].prims) = 1
        /\ frames[1].prims[1].name = <<"W","o","r","l","d">>
        /\ frames[1].prims[1].position = Undefined
        /\ Len(frames[1].prims[1].children) = 1
        /\ frames[1].prims[1].children[1].name = <<"I","m","p","o","r","t","e","d","C","u","b","e">>
        /\ frames[1].prims[1].children[1].references
             = <<[assetPath |-> <<".","/","m","o","d","e","l","s","/","c","u","b","e",".","u","s","d","a">>, primPath |-> Undefined]>>
        /\ frames[1].prims[1].children[1].position = Some(<<Whole(2), Whole(0), Whole(0)>>)

----------------------------------------------------------------------------
(* C11 *)

\* parseUsda run again on a text of the workspace gives the forest it gave
ParseRepeatable == \A text \in Texts : parseUsda(text) = ParsedTexts[text]

----------------------------------------------------------------------------
(* C12 *)

Interpolating == call.fn \in {"interpolateValue", "interpolateVector3"} /\ returned # Undefined
\* the samples of the call, the components of its values (0 for a scalar)
\* and, by component, a stored value and the value returned
SamplesOfCall == {call.timeSamples[j] : j \in 1..Len(call.timeSamples)}
Components == IF call.fn = "interpolateValue" THEN {0} ELSE {1, 2, 3}
StoredAt(sample, c) == Exact(IF c = 0 THEN sample.value ELSE sample.value[c])
Got(c) == IF c = 0 THEN returned[1] ELSE returned[1][c]
TimeOf(sample) == Exact(sample.key)
Earlier(a, b) == LessEq(a, b) /\ a # b

\* C12 as stated: for samples at times T0 < ... < Tn stored in any insertion order,
\* interpolation at a frame equal to some Ti returns the value stored at Ti,
\* at a frame below T0 the T0 value, at a frame above Tn the Tn value, and at
\* a frame strictly between neighbours Ti and Ti+1 the linear blend
\* v_i + (v_i+1 - v_i) * (frame - Ti) / (Ti+1 - Ti); interpolateVector3 does
\* so for each of the three components.
C12_StoredValueAtEverySample ==
    Interpolating =>
        \A c \in Components : \A s \in SamplesOfCall :
            /\ TimeOf(s) = call.frame => Got(c) = StoredAt(s, c)
            /\ (\A u \in SamplesOfCall : LessEq(call.frame, TimeOf(u)) /\ LessEq(TimeOf(s), TimeOf(u)))
                  => Got(c) = StoredAt(s, c)
            /\ (\A u \in SamplesOfCall : LessEq(TimeOf(u), call.frame) /\ LessEq(TimeOf(u), TimeOf(s)))
                  => Got(c) = StoredAt(s, c)
            /\ \A n \in SamplesOfCall :
                  (/\ Earlier(TimeOf(s), call.frame) /\ Earlier(call.frame, TimeOf(n))
                   /\ \A u \in SamplesOfCall : ~(Earlier(TimeOf(s), TimeOf(u)) /\ Earlier(TimeOf(u), TimeOf(n))))
                  => Got(c) = Calc(StoredAt(s, c), "+",
                                   Calc(Calc(Calc(StoredAt(n, c), "-", StoredAt(s, c)), "*",
                                             Calc(call.frame, "-", TimeOf(s))), "/",
                                        Calc(TimeOf(n), "-", TimeOf(s))))


\* the blend v_s + (v_n - v_s) * (frame - T_s) / (T_n - T_s)
LinearBlend(s, n, c) ==
    Calc(StoredAt(s, c), "+",
         Calc(Calc(Calc(StoredAt(n, c), "-", StoredAt(s, c)), "*",
                   Calc(call.frame, "-", TimeOf(s))), "/",
              Calc(TimeOf(n), "-", TimeOf(s))))
Neighbours(s, n) ==
    /\ Earlier(TimeOf(s), TimeOf(n))
    /\ \A u \in SamplesOfCall : ~(Earlier(TimeOf(s), TimeOf(u)) /\ Earlier(TimeOf(u), TimeOf(n)))

\* C12 amended: for samples at times T0 < ... < Tn stored in any insertion
\* order, interpolation at a frame at or below T0 returns the T0 value, at
\* a frame at or above Tn the Tn value, and at a frame inside the range with
\* Ti < frame <= Ti+1 the linear blend of the neighbours Ti and Ti+1; at
\* frame = Ti+1 that blend is the value stored at Ti+1 when v_i is a number
\* and NaN when v_i is NaN.  interpolateVector3 does so for each component.
C12_InterpolationBlendsIntoSamples ==
    Interpolating =>
        \A c \in Components : \A s \in SamplesOfCall :
            /\ (\A u \in SamplesOfCall : LessEq(call.frame, TimeOf(u)) /\ LessEq(TimeOf(s), TimeOf(u)))
                  => Got(c) = StoredAt(s, c)
            /\ (\A u \in SamplesOfCall : LessEq(TimeOf(u), call.frame) /\ LessEq(TimeOf(u), TimeOf(s)))
                  => Got(c) = StoredAt(s, c)
            /\ \A n \in SamplesOfCall :
                  (/\ Neighbours(s, n)
                   /\ Earlier(TimeOf(s), call.frame) /\ LessEq(call.frame, TimeOf(n))
                   /\ \E u \in SamplesOfCall : Earlier(call.frame, TimeOf(u)))
                  => /\ Got(c) = LinearBlend(s, n, c)
                     /\ call.frame = TimeOf(n)
                           => Got(c) = IF StoredAt(s, c).nan THEN NotANumber ELSE StoredAt(n, c)

\* C12 witness: three samples inserted out of the order of their times, and
\* a frame strictly between the two later times: the value returned is
\* neither of the two stored values.
C12_Witness ==
    /\ Interpolating
    /\ call.fn = "interpolateValue"
    /\ Len(call.timeSamples) = 3
    /\ Earlier(TimeOf(call.timeSamples[3]), TimeOf(call.timeSamples[1]))
    /\ Earlier(TimeOf(call.timeSamples[1]), TimeOf(call.timeSamples[2]))
    /\ Earlier(TimeOf(call.timeSamples[1]), call.frame)
    /\ Earlier(call.frame, TimeOf(call.timeSamples[2]))
    /\ ~returned[1].nan
    /\ returned[1] \notin {StoredAt(call.timeSamples[1], 0), StoredAt(call.timeSamples[2], 0)}
    /\ \E u \in SamplesOfCall : u.value = NaN

----------------------------------------------------------------------------
(* C13 *)

ResolvingPath == call.fn = "resolveRelativePath" /\ returned # Undefined
\* the directory of a base path: everything up to and including its last
\* '/', or '/' when it has none
SlashesOf(s) == {i \in 1..Len(s) : s[i] = "/"}
DirectoryOf(base) ==
    IF SlashesOf(base) = {} THEN <<"/">>
    ELSE SubSeq(base, 1, CHOOSE i \in SlashesOf(base) : \A j \in SlashesOf(base) : j <= i)
\* the segments of the asset path joined to the directory of the base path
JoinedSegments == FilterNonEmpty(Split(DirectoryOf(call.basePath) \o call.relativePath, "/"))
IsName(segment) == segment \notin {<<".">>, <<".",".">>}
\* segment k is a name that no '..' after it takes away: up to any later
\* segment there are at most as many '..' after k as names after k
Stays(segments, k) ==
    /\ IsName(segments[k])
    /\ \A j \in (k + 1)..Len(segments) :
          Cardinality({i \in (k + 1)..j : segments[i] = <<".",".">>})
             <= Cardinality({i \in (k + 1)..j : IsName(segments[i])})
\* the segments that stay, in their order
Staying(segments) ==
    LET kept == {k \in 1..Len(segments) : Stays(segments, k)}
    IN [n \in 1..Cardinality(kept) |->
           segments[CHOOSE k \in kept : Cardinality({i \in kept : i < k}) = n - 1]]

\* C13: resolveRelativePath(base, asset) returns asset unchanged when asset
\* starts with '/', and otherwise the path made of the segments of asset
\* joined to the directory of base, with every '.' segment and every '..'
\* segment together with the segment before it taken out.
C13_ResolveRelativePath ==
    ResolvingPath =>
        returned[1] = IF call.relativePath # <<>> /\ call.relativePath[1] = "/"
                      THEN call.relativePath
                      ELSE <<"/">> \o Join(Staying(JoinedSegments), <<"/">>)

\* C13 witness: a relative asset path with a '.' and with a '..' that takes
\* away a directory of the base path.
C13_Witness ==
    /\ ResolvingPath
    /\ call.basePath = ModelPath
    /\ call.relativePath # <<>> /\ call.relativePath[1] # "/"
    /\ \E k \in 2..Len(JoinedSegments) : JoinedSegments[k] = <<".",".">>
    /\ \E k \in 1..Len(JoinedSegments) : JoinedSegments[k] = <<".">>
    /\ JoinedSegments[1] \notin {Staying(JoinedSegments)[k] : k \in 1..Len(Staying(JoinedSegments))}
    /\ Len(returned[1]) > 1

----------------------------------------------------------------------------
(* C14 *)

ParsingUsda == call.fn = "parseUsda"
RECURSIVE Scan(_)
\* the text read item by item up to item k: open is the item that opened the
\* timeSamples block the reading is in (0 outside of a block), any tells
\* whether a prim was declared.  An opening line opens a block once a prim
\* is declared, and the next closing brace ends the block.
ScanItem(before, k) ==
    IF before.open # 0
    THEN (IF call.layout[k].kind = "brace" THEN [before EXCEPT !.open = 0] ELSE before)
    ELSE IF call.layout[k].kind \in {"def", "multi"} THEN [before EXCEPT !.any = TRUE]
    ELSE IF call.layout[k].kind = "opening" /\ before.any THEN [before EXCEPT !.open = k]
    ELSE before
Scan(k) == IF k = 0 THEN [open |-> 0, any |-> FALSE] ELSE ScanItem(Scan(k - 1), k)
\* item k is a line of a block, its closing brace included
Consumed(k) == Scan(k - 1).open # 0
\* the items of the text that declare a prim, and the line an item starts at
Declarations ==
    {k \in 1..Len(call.layout) : call.layout[k].kind \in {"def", "multi"} /\ ~Consumed(k)}
IndentOf(k) == call.layout[k].indent
StartLine(k) == 1 + Len(LinesFrom(SubSeq(call.layout, 1, k - 1), 1))
\* the nearest declaration before k with a strictly smaller indentation, 0
\* when there is none
ParentOf(k) ==
    LET smaller == {j \in Declarations : j < k /\ IndentOf(j) < IndentOf(k)}
    IN IF smaller = {} THEN 0 ELSE CHOOSE j \in smaller : \A h \in smaller : h <= j
\* the names of the declarations of a set, in source order
NamesInOrder(S) ==
    [n \in 1..Cardinality(S) |-> NameOf(CHOOSE k \in S : Cardinality({j \in S : j < k}) = n - 1)]
NamesOf(prims) == [j \in 1..Len(prims) |-> prims[j].name]
RECURSIVE ChainTo(_)
\* a declaration, below it its parent, and so on down to a root prim
ChainTo(k) == IF k = 0 THEN <<>> ELSE Append(ChainTo(ParentOf(k)), k)
\* the last declaration the loop has gone through, 0 before the first
LastDeclared ==
    LET seen == {k \in Declarations : StartLine(k) < parser.i}
    IN IF seen = {} THEN 0 ELSE CHOOSE k \in seen : \A h \in seen : h <= k

\* C14: parseUsda nests prims by indentation with a stack.  At every step
\* the indentations on the stack increase strictly from bottom to top, and
\* the stack holds the last declaration and below each entry its parent:
\* every entry with an indentation greater than or equal to the new line's
\* was popped.  In the forest returned the parent of a prim is the nearest
\* declaration before it with a strictly smaller indentation, a prim
\* without one is a root prim, and roots and children are in source order.
C14_NestingByIndentation ==
    ParsingUsda =>
        /\ \A k \in 1..(Len(parser.stack) - 1) : parser.stack[k].indent < parser.stack[k + 1].indent
        /\ [k \in 1..Len(parser.stack) |->
               <<GetPrim(parser.prims, parser.stack[k].at).name, parser.stack[k].indent>>]
             = [k \in 1..Len(ChainTo(LastDeclared)) |->
                   <<NameOf(ChainTo(LastDeclared)[k]), IndentOf(ChainTo(LastDeclared)[k])>>]
        /\ returned # Undefined =>
              /\ NamesOf(returned[1]) = NamesInOrder({k \in Declarations : ParentOf(k) = 0})
              /\ Cardinality(AllPrims(returned[1])) = Cardinality(Declarations)
              /\ \A prim \in AllPrims(returned[1]) : \E k \in Declarations :
                    /\ prim.name = NameOf(k)
                    /\ NamesOf(prim.children)
                         = NamesInOrder({j \in Declarations : ParentOf(j) = k})

\* C14 witness: a text is parsed in which a declaration follows one of a
\* greater indentation and one of a smaller: the one before it was popped,
\* and it is the second child of the one before that.
C14_Witness ==
    /\ ParsingUsda
    /\ returned # Undefined
    /\ \E k \in Declarations :
          /\ ParentOf(k) # 0
          /\ \E j \in Declarations : ParentOf(k) < j /\ j < k /\ IndentOf(j) > IndentOf(k)
          /\ \E prim \in AllPrims(returned[1]) :
                Len(prim.children) = 2 /\ prim.children[2].name = NameOf(k)

----------------------------------------------------------------------------
(* C15 *)

RECURSIVE FindThroughAll(_, _, _)
\* the walk of a prim path in which the children of a prim are its native
\* children followed by its resolvedChildren
FindThroughAll(current, segments, i) ==
    LET hits == {j \in 1..Len(current) : current[j].name = segments[i]}
        found == current[CHOOSE j \in hits : \A h \in hits : j <= h]
    IN IF i > Len(segments) \/ hits = {} THEN Undefined
       ELSE IF i = Len(segments) THEN Some(found)
       ELSE FindThroughAll(found.children \o found.resolvedChildren, segments, i + 1)

\* the root entries with a prim path whose file is entered, the resolved
\* forest of that file, and the invalid_prim_path errors recorded for one
PathUses == {k \in RootEntries : /\ RootEntry(k).ref.primPath # Undefined
                                 /\ RootTarget(k) # rootPath
                                 /\ Usable(RootTarget(k))}
ResolvedTarget(k) ==
    ComposePrims(ForestOf(RootTarget(k)), RootTarget(k), {rootPath, RootTarget(k)})
PathOf(k) == FilterNonEmpty(Split(RootEntry(k).ref.primPath[1], "/"))
InvalidPathErrors(k) ==
    {e \in OfTypeIn(result.errors, "invalid_prim_path", rootPath) :
        /\ result.errors[e].message[2] = RootEntry(k).ref.primPath[1]
        /\ result.errors[e].message[4] = RootEntry(k).ref.assetPath}

\* C15 as stated: a prim path is walked through the resolved tree of the
\* referenced file with the resolvedChildren of a prim counted among its
\* children: a path that names a prim spliced in by that file's own entry
\* is found and its clone pushed, and invalid_prim_path is recorded only
\* when no prim of the resolved tree has the path.
C15_PrimPathThroughResolvedChildren ==
    Composed =>
        \A k \in PathUses :
            /\ FindThroughAll(ResolvedTarget(k), PathOf(k), 1) # Undefined
                  => \E j \in 1..Len(Holder(k).resolvedChildren) :
                        Holder(k).resolvedChildren[j]
                           = clonePrim(FindThroughAll(ResolvedTarget(k), PathOf(k), 1)[1])
            /\ InvalidPathErrors(k) # {}
                  => FindThroughAll(ResolvedTarget(k), PathOf(k), 1) = Undefined

----------------------------------------------------------------------------
(* C16 *)

\* the paths of the files of the chain up to frame k, the root file first
ChainPaths(stack, k) == {stack[j].currentFilePath : j \in 1..k}

\* C16: at every step the visitedPaths of every context on the call stack
\* is the root path plus exactly the paths of the files entered on the chain
\* up to it, all different.  Entering a file builds the set of the parent
\* plus the new path, and no step changes the set of a context that stays
\* on the stack: not the entering, and not the return, after which the
\* remaining entries and the children are resolved with the set as it was.
C16_VisitedPathsIsTheChain ==
    /\ [](\A k \in 1..Len(frames) :
             /\ frames[1].currentFilePath = rootPath
             /\ frames[k].visitedPaths = ChainPaths(frames, k)
             /\ Cardinality(frames[k].visitedPaths) = k)
    /\ [][\A stack \in {frames'} :
             /\ \A k \in 1..Len(frames) :
                   k <= Len(stack) => stack[k].visitedPaths = frames[k].visitedPaths
             /\ Len(stack) > Len(frames) /\ frames # <<>> =>
                   /\ Len(stack) = Len(frames) + 1
                   /\ stack[Len(stack)].currentFilePath \notin Top.visitedPaths
                   /\ stack[Len(stack)].visitedPaths
                        = Top.visitedPaths \cup {stack[Len(stack)].currentFilePath}]_vars

\* C16 witness: a second file is being resolved two levels below the root
\* file after a nested file returned and gave the root file prims.
C16_Witness ==
    /\ pc = "resolving"
    /\ Len(frames) = 3
    /\ \E prim \in AllPrims(frames[1].prims) : prim.resolvedChildren # <<>>
    /\ Top.work # <<>>

----------------------------------------------------------------------------
(* C17 *)

\* a step recorded one error, of a type, and nothing else
Recorded(errs, type) ==
    /\ Len(errs) = Len(errors) + 1
    /\ SubSeq(errs, 1, Len(errors)) = errors
    /\ errs[Len(errs)].type = type
\* a step entered the file at a path: a frame for it is on top of the stack
\* and the frames below are as they were
Entered(stack, path) ==
    /\ Len(stack) = Len(frames) + 1
    /\ SubSeq(stack, 1, Len(frames)) = frames
    /\ stack[Len(stack)].currentFilePath = path

\* C17: the step taken at an entry has exactly one outcome, by priority: a
\* circular_reference error when the absolute path is in visitedPaths,
\* whatever the file map holds for it; otherwise a missing_file error when
\* the path is no key of the map; otherwise nothing when the file is
\* inactive; otherwise the file is parsed and entered, or the parse_error
\* recorded when it cannot be parsed.  A step that records an error pushes
\* nothing onto resolvedChildren and ends the entry, and the return to an
\* entered entry records at most the one invalid_prim_path error: no entry
\* records two errors of its own.
C17_OneOutcomeByPriority ==
    [][\A stack \in {frames'}, errs \in {errors'} :
          /\ AtEntry =>
                IF AbsolutePath \in Top.visitedPaths
                THEN Recorded(errs, "circular_reference") /\ stack = NextEntry
                ELSE IF AbsolutePath \notin DOMAIN files
                THEN Recorded(errs, "missing_file") /\ stack = NextEntry
                ELSE IF ~files[AbsolutePath].active
                THEN errs = errors /\ stack = NextEntry
                ELSE IF files[AbsolutePath].content = Undefined
                THEN Recorded(errs, "parse_error") /\ stack = NextEntry
                ELSE errs = errors /\ Entered(stack, AbsolutePath)
          /\ Returning =>
                \/ errs = errors
                \/ /\ Recorded(errs, "invalid_prim_path")
                   /\ stack[Len(stack)].prims = Caller.prims]_vars

\* C17 witness: a circular_reference error is recorded for a path that is no
\* key of the file map, and after it a missing_file error for another path.
C17_Witness ==
    \E e \in OfType(errors, "circular_reference"), m \in OfType(errors, "missing_file") :
        /\ ErrorTarget(errors[e]) \notin DOMAIN files
        /\ e < m
        /\ ErrorTarget(errors[m]) # ErrorTarget(errors[e])

----------------------------------------------------------------------------
(* C18 *)

----------------------------------------------------------------------------
(* C19 *)

RECURSIVE WalkPrims(_, _, _)
RECURSIVE WalkRefs(_, _, _, _)
\* the errors of a depth-first walk of a forest of the file at path: for
\* each prim those of its references in order, then of its payloads, then
\* of its native children; for an entry that enters a file, the errors of
\* the walk of that file and then the entry's own invalid_prim_path error
WalkRef(kind, ref, path, visited) ==
    LET target == resolveRelativePath(path, ref.assetPath)
    IN IF target \in visited THEN <<CircularError(kind, path, target)>>
       ELSE IF target \notin DOMAIN files THEN <<MissingError(kind, path, ref.assetPath, target)>>
       ELSE IF ~files[target].active THEN <<>>
       ELSE IF files[target].content = Undefined
       THEN <<ReferencedParseError(kind, path, ref.assetPath)>>
       ELSE WalkPrims(ForestOf(target), target, visited \cup {target})
            \o (IF /\ ref.primPath # Undefined
                   /\ findPrimByPath(ForestOf(target), ref.primPath[1]) = Undefined
                THEN <<InvalidPrimPathError(path, ref.primPath[1], ref.assetPath)>>
                ELSE <<>>)
WalkRefs(kind, refs, path, visited) ==
    IF refs = <<>> THEN <<>>
    ELSE WalkRef(kind, Head(refs), path, visited) \o WalkRefs(kind, Tail(refs), path, visited)
WalkPrims(prims, path, visited) ==
    IF prims = <<>> THEN <<>>
    ELSE WalkRefs("reference", Head(prims).references, path, visited)
         \o WalkRefs("payload", Head(prims).payloads, path, visited)
         \o WalkPrims(Head(prims).children, path, visited)
         \o WalkPrims(Tail(prims), path, visited)
WalkOfRoot == WalkPrims(ForestOf(rootPath), rootPath, {rootPath})

\* C19: the error list parseAndResolve returns is the list of a depth-first
\* pre-order walk: for each prim the errors of its reference entries in
\* entry order, then of its payload entries, then of its native children
\* left to right, the errors raised inside a referenced file standing at the
\* place of the entry that entered it, before the invalid_prim_path error
\* of that entry and before the errors of later entries; and while the
\* resolution runs the errors recorded are an initial part of that list.
C19_ErrorsInWalkOrder ==
    /\ Composed => result.errors = WalkOfRoot
    /\ pc = "resolving" => errors = SubSeq(WalkOfRoot, 1, Len(errors))

\* C19 witness: the list returned has an error raised inside a referenced
\* file, after it the invalid_prim_path error of the entry that entered the
\* file, and after that an error of a later entry of the root file.
C19_Witness ==
    /\ Composed
    /\ \E j \in OfTypeIn(result.errors, "invalid_prim_path", rootPath) :
          /\ j > 1
          /\ result.errors[j - 1].filePath = ErrorTarget(result.errors[j])
          /\ \E k \in (j + 1)..Len(result.errors) :
                /\ result.errors[k].filePath = rootPath
                /\ result.errors[k].type = "missing_file"

----------------------------------------------------------------------------
(* C20 *)

\* the text of ModelPick with its reference written as a payload
\*   | def Xform "Pick" (payload = @../cube.usda@</C/Sub>)
\*   | {
\*   | }
ModelPickAsPayload ==
    <<"d","e","f"," ","X","f","o","r","m"," ","\"","P","i","c","k","\""," ","(","p","a","y","l","o","a","d"," ","="," ","@",".",".","/","c","u","b","e",".","u","s","d","a","@","<","/","C","/","S","u","b",">",")","\n">> \o
    <<"{","\n">> \o
    <<"}","\n">>
ParsedPickAsPayload == parseUsda(ModelPickAsPayload)

\* the forest with the reference entry of the prim at position at made a
\* payload entry, at the head of the prim's payloads
AsPayload(prims, at) ==
    SetPrim(prims, at, [GetPrim(prims, at) EXCEPT !.references = <<>>,
                                                  !.payloads = GetPrim(prims, at).references \o @])
\* the files parseAndResolve may come to parse, and in the file at a path
\* the prims that hold a reference entry
Parsed == {rootPath} \cup {q \in DOMAIN files \ {rootPath} : Usable(q)}
ReferenceSites(path) ==
    {EntriesIn(path)[k].at : k \in {k \in 1..Len(EntriesIn(path)) : EntriesIn(path)[k].kind = "reference"}}

\* the forest of the file at path, were the file at p to parse as f
ForestIf(p, f, path) == IF path = p THEN f ELSE ForestOf(path)

RECURSIVE ComposeIf(_, _, _, _, _)
RECURSIVE GivenAllIf(_, _, _, _, _)
\* the composition of a forest of the file at path, were the file at p to
\* parse as f
GivenIf(p, f, ref, path, visited) ==
    LET target == resolveRelativePath(path, ref.assetPath)
        forest == ComposeIf(p, f, ForestIf(p, f, target), target, visited \cup {target})
        found  == findPrimByPath(forest, ref.primPath[1])
    IN IF target \in visited \/ ~Usable(target) THEN <<>>
       ELSE IF ref.primPath = Undefined THEN forest
       ELSE IF found = Undefined THEN <<>> ELSE <<found[1]>>
GivenAllIf(p, f, refs, path, visited) ==
    IF refs = <<>> THEN <<>>
    ELSE GivenIf(p, f, Head(refs), path, visited) \o GivenAllIf(p, f, Tail(refs), path, visited)
ComposeIf(p, f, prims, path, visited) ==
    [j \in 1..Len(prims) |->
        [prims[j] EXCEPT
            !.children = ComposeIf(p, f, @, path, visited),
            !.resolvedChildren = @ \o GivenAllIf(p, f, prims[j].references, path, visited)
                                   \o GivenAllIf(p, f, prims[j].payloads, path, visited)]]

RECURSIVE WalkPrimsIf(_, _, _, _, _)
RECURSIVE WalkRefsIf(_, _, _, _, _, _)
\* the errors of the walk of a forest of the file at path, were the file at
\* p to parse as f
WalkRefIf(p, f, kind, ref, path, visited) ==
    LET target == resolveRelativePath(path, ref.assetPath)
    IN IF target \in visited THEN <<CircularError(kind, path, target)>>
       ELSE IF target \notin DOMAIN files THEN <<MissingError(kind, path, ref.assetPath, target)>>
       ELSE IF ~files[target].active THEN <<>>
       ELSE IF files[target].content = Undefined
       THEN <<ReferencedParseError(kind, path, ref.assetPath)>>
       ELSE WalkPrimsIf(p, f, ForestIf(p, f, target), target, visited \cup {target})
            \o (IF /\ ref.primPath # Undefined
                   /\ findPrimByPath(ForestIf(p, f, target), ref.primPath[1]) = Undefined
                THEN <<InvalidPrimPathError(path, ref.primPath[1], ref.assetPath)>>
                ELSE <<>>)
WalkRefsIf(p, f, kind, refs, path, visited) ==
    IF refs = <<>> THEN <<>>
    ELSE WalkRefIf(p, f, kind, Head(refs), path, visited)
         \o WalkRefsIf(p, f, kind, Tail(refs), path, visited)
WalkPrimsIf(p, f, prims, path, visited) ==
    IF prims = <<>> THEN <<>>
    ELSE WalkRefsIf(p, f, "reference", Head(prims).references, path, visited)
         \o WalkRefsIf(p, f, "payload", Head(prims).payloads, path, visited)
         \o WalkPrimsIf(p, f, Head(prims).children, path, visited)
         \o WalkPrimsIf(p, f, Tail(prims), path, visited)

\* what parseAndResolve returns for the root content, were the file at p to
\* parse as f
PrimsIf(p, f) ==
    filterActivePrims(ComposeIf(p, f, ForestIf(p, f, rootPath), rootPath, {rootPath}))
ErrorsIf(p, f) == WalkPrimsIf(p, f, ForestIf(p, f, rootPath), rootPath, {rootPath})

RECURSIVE EntriesMerged(_)
\* a forest with the entries of every prim in one list, references first:
\* what it is apart from the kinds of its entries
EntriesMerged(prims) ==
    [j \in 1..Len(prims) |->
        [prims[j] EXCEPT !.references = @ \o prims[j].payloads,
                         !.payloads = <<>>,
                         !.children = EntriesMerged(@),
                         !.resolvedChildren = EntriesMerged(@)]]
\* an error list apart from the words its messages start with
ApartFromWording(errs) ==
    [k \in 1..Len(errs) |->
        [type |-> errs[k].type, filePath |-> errs[k].filePath, rest |-> Tail(errs[k].message)]]

\* C20: references and payloads are resolved alike.  Whatever file that is
\* parsed holds it, a reference entry made a payload entry with the same
\* asset path and prim path (taking its turn where it had it: before the
\* payloads the prim already has) gives the same resolved tree apart from
\* the kinds of the entries, and an error list of the same length with the
\* same types and file paths in the same order, whose messages differ in
\* their first words only.  What parseAndResolve returns is what the forests
\* parsed determine, and the text with 'payload' for 'references' parses to
\* the forest with the entry made a payload.
C20_PayloadResolvedAsReference ==
    /\ ParsedPickAsPayload = AsPayload(ParsedTexts[ModelPick], <<1>>)
    /\ Composed =>
        /\ result.prims = PrimsIf(rootPath, ForestOf(rootPath))
        /\ result.errors = ErrorsIf(rootPath, ForestOf(rootPath))
        /\ \A p \in Parsed : \A at \in ReferenceSites(p) :
              /\ EntriesMerged(PrimsIf(p, AsPayload(ForestOf(p), at))) = EntriesMerged(result.prims)
              /\ ApartFromWording(ErrorsIf(p, AsPayload(ForestOf(p), at)))
                    = ApartFromWording(result.errors)

\* C20 witness: a call has returned for which a referenced file holds a
\* reference entry that, made a payload, changes the tree returned (the
\* entry is in it, with its kind) and the wording of an error.
C20_Witness ==
    /\ Composed
    /\ \E p \in Parsed \ {rootPath} : \E at \in ReferenceSites(p) :
          /\ PrimsIf(p, AsPayload(ForestOf(p), at)) # result.prims
          /\ ErrorsIf(p, AsPayload(ForestOf(p), at)) # result.errors
          /\ GetPrim(ForestOf(p), at).payloads = <<>>

----------------------------------------------------------------------------
(* C21 *)

\* the lines of the text, and the items that are a timeSamples opening line
LinesOfCall == Split(call.content, "\n")
OpeningItems == {k \in 1..Len(call.layout) : call.layout[k].kind = "opening"}
\* the opening line is read with a prim on the stack and outside of a block
Opens(k) == k \in OpeningItems /\ ~Consumed(k) /\ Scan(k - 1).any
\* the first closing brace after item k, or the place after the last item
CloseOf(k) ==
    LET braces == {j \in (k + 1)..Len(call.layout) : call.layout[j].kind = "brace"}
    IN IF braces = {} THEN Len(call.layout) + 1 ELSE CHOOSE j \in braces : \A h \in braces : j <= h
FieldOf(k) ==
    IF call.layout[k].attr = "radius" THEN "radiusTimeSamples" ELSE "rotationTimeSamples"
\* the time and the value the sample texts are written with
WrittenTime(j) == <<Whole(0), Whole(0), Whole(24), Whole(0)>>[call.layout[j].text]
WrittenValue(j) ==
    <<Tenths(5), Tenths(15), Whole(2), Radians(<<Whole(90), Whole(0), Whole(0)>>)>>[call.layout[j].text]
\* the body lines of the block of k that are samples of its attribute
SampleLines(k) ==
    {j \in (k + 1)..(CloseOf(k) - 1) :
        /\ call.layout[j].kind = "sample"
        /\ (call.layout[j].text = 4) = (call.layout[k].attr = "rotate")}
\* the lines that bring a time not written before in the block, and the
\* last line written with the time of line j
FirstLines(k) == {j \in SampleLines(k) : \A h \in SampleLines(k) : h < j => WrittenTime(h) # WrittenTime(j)}
LastLine(k, j) ==
    CHOOSE h \in SampleLines(k) :
        /\ WrittenTime(h) = WrittenTime(j)
        /\ \A g \in SampleLines(k) : WrittenTime(g) = WrittenTime(j) => g <= h
\* the Map the block of k is to give: one entry per time, with the value
\* written last
SamplesWritten(k) ==
    [n \in 1..Cardinality(FirstLines(k)) |->
        [key |-> WrittenTime(CHOOSE j \in FirstLines(k) : Cardinality({h \in FirstLines(k) : h < j}) = n - 1),
         value |-> WrittenValue(LastLine(k, CHOOSE j \in FirstLines(k) :
                                               Cardinality({h \in FirstLines(k) : h < j}) = n - 1))]]
TopOfStack(st) == GetPrim(st.prims, st.stack[Len(st.stack)].at)

\* C21 as stated: whenever parseUsda meets a timeSamples opening line (one
\* that is not itself a line of an earlier block), it consumes the lines
\* that follow up to the first line that is '}' after trimming, or to the
\* end of the text, and resumes at the line after it.
C21_EveryOpeningLineIsConsumedWithItsBlock ==
    [][ParsingUsda /\ parser' # parser =>
        \A after \in {parser'} : \A k \in OpeningItems :
            (parser.i = StartLine(k) /\ \A j \in OpeningItems : k <= j)
                => after.i = StartLine(CloseOf(k)) + 1]_vars

\* C21, amended: when parseUsda, with a prim on its stack, meets a
\* timeSamples opening line, the iteration consumes the lines that follow up
\* to the first line that is '}' after trimming, or to the end of the text,
\* gives the prim on top of the stack a Map with one entry per time written
\* on a matching body line, a later line with the same time overwriting the
\* value of an earlier one, changes nothing else and goes on with the line
\* after that '}': the cursor never stands on a line of the block.  An
\* opening line met while the stack is empty is passed over and opens no
\* block.  From every state of the loop an iteration moves the cursor
\* forward, and every call returns.
C21_BlockConsumedForThePrimOnTheStack ==
    /\ [](ParsingUsda =>
            /\ \A k \in 1..Len(call.layout) :
                  Consumed(k) => parser.i \notin StartLine(k)..(StartLine(k + 1) - 1)
            /\ parser.i <= Len(LinesOfCall) => ParseLine(parser, call.content, LinesOfCall).i > parser.i)
    /\ [][ParsingUsda /\ parser' # parser =>
            \A after \in {parser'} :
                /\ after.i > parser.i
                /\ after.i <= Len(LinesOfCall) + 2
                /\ \A k \in OpeningItems : parser.i = StartLine(k) =>
                      IF Opens(k)
                      THEN /\ after.i = StartLine(CloseOf(k)) + 1
                           /\ after.stack = parser.stack
                           /\ after.prims
                                = SetPrim(parser.prims, parser.stack[Len(parser.stack)].at,
                                          [TopOfStack(parser) EXCEPT ![FieldOf(k)] = Some(SamplesWritten(k))])
                      ELSE after = [parser EXCEPT !.i = @ + 1]]_vars
    /\ (ParsingUsda ~> returned # Undefined)

\* C21 witness: a text was parsed in which a prim has a block with two body
\* lines written with the same time, closed by a brace that a declaration
\* follows: the prim has the one sample written last, and the declaration
\* after the block is in the forest.
C21_Witness ==
    /\ ParsingUsda
    /\ returned # Undefined
    /\ \E k \in OpeningItems :
          /\ Opens(k)
          /\ Cardinality(SampleLines(k)) = 2
          /\ Cardinality(FirstLines(k)) = 1
          /\ CloseOf(k) <= Len(call.layout)
          /\ \E j \in Declarations : j > CloseOf(k)
          /\ returned[1][1].radiusTimeSamples = Some(<<[key |-> Whole(0), value |-> Tenths(15)]>>)

----------------------------------------------------------------------------
(* C22 *)

\* the items that are an attribute line or a closing brace read by the loop
AttributeItems ==
    {k \in 1..Len(call.layout) : call.layout[k].kind = "attribute" /\ ~Consumed(k)}
BraceItems == {k \in 1..Len(call.layout) : call.layout[k].kind = "brace" /\ ~Consumed(k)}
\* the last declaration before item k, 0 when there is none
DeclaredBefore(k) ==
    LET seen == {j \in Declarations : j < k}
    IN IF seen = {} THEN 0 ELSE CHOOSE j \in seen : \A h \in seen : h <= j
RECURSIVE Skeleton(_)
\* the names of a forest, nested as the prims are
Skeleton(prims) == [j \in 1..Len(prims) |-> <<prims[j].name, Skeleton(prims[j].children)>>]
\* the prims of a forest, each without its children
Flat(prims) == {[prim EXCEPT !.children = <<>>] : prim \in AllPrims(prims)}
Named(prims, name) == CHOOSE prim \in Flat(prims) : prim.name = name

\* C22: an attribute line changes only the prim on top of the stack, which
\* is the prim declared last, whatever closing braces were read since (the
\* prim's own among them), and leaves every other prim as it is; a line
\* that is no declaration, a closing brace or an attribute line, leaves the
\* stack as it is; and an attribute line read before any declaration
\* changes nothing.
C22_AttributeLineChangesTheTopOfStack ==
    [][ParsingUsda /\ parser' # parser =>
        \A after \in {parser'} :
            /\ (\A k \in Declarations : parser.i # StartLine(k)) => after.stack = parser.stack
            /\ \A k \in BraceItems : parser.i = StartLine(k) => after = [parser EXCEPT !.i = @ + 1]
            /\ \A k \in AttributeItems : parser.i = StartLine(k) =>
                  IF DeclaredBefore(k) = 0 THEN after = [parser EXCEPT !.i = @ + 1]
                  ELSE /\ after.i = parser.i + 1
                       /\ TopOfStack(parser).name = NameOf(DeclaredBefore(k))
                       /\ Skeleton(after.prims) = Skeleton(parser.prims)
                       /\ Flat(after.prims)
                            = (Flat(parser.prims) \ {Named(parser.prims, NameOf(DeclaredBefore(k)))})
                              \cup {[Named(parser.prims, NameOf(DeclaredBefore(k)))
                                        EXCEPT !.radius = Some(Whole(2))]}]_vars

\* C22 witness: a text was parsed in which a closing brace stands between a
\* declaration and an attribute line, and the prim declared has the
\* attribute: the brace did not pop it.
C22_Witness ==
    /\ ParsingUsda
    /\ returned # Undefined
    /\ \E k \in AttributeItems : \E b \in BraceItems :
          /\ DeclaredBefore(k) # 0
          /\ DeclaredBefore(k) < b /\ b < k
          /\ Named(returned[1], NameOf(DeclaredBefore(k))).radius = Some(Whole(2))

----------------------------------------------------------------------------
(* C23 *)

Inactive(prim) == prim.active = Some(FALSE)
Range(seq) == {seq[j] : j \in 1..Len(seq)}
\* the prim that holds a root entry, as parsed, and whether it or a prim
\* above it was declared with active = false
HolderParsed(k) == GetPrim(ForestOf(rootPath), RootEntry(k).at)
HolderDropped(k) ==
    \E n \in 1..Len(RootEntry(k).at) :
        Inactive(GetPrim(ForestOf(rootPath), SubSeq(RootEntry(k).at, 1, n)))
\* the root entry makes parseAndResolve resolve its target
Enters(k) == RootTarget(k) # rootPath /\ Usable(RootTarget(k))
\* the prims of the target a root entry names: the prim at its prim path,
\* or the root prims of the file
PrimsNamed(k) ==
    IF RootEntry(k).ref.primPath = Undefined THEN Range(ForestOf(RootTarget(k)))
    ELSE IF findPrimByPath(ForestOf(RootTarget(k)), RootEntry(k).ref.primPath[1]) = Undefined THEN {}
    ELSE {findPrimByPath(ForestOf(RootTarget(k)), RootEntry(k).ref.primPath[1])[1]}

\* C23: the filter on the active flag runs once, after the resolution of
\* all files.  While files are resolved no prim is dropped from a forest;
\* the entries of a prim declared with active = false, and of the prims
\* below it, are resolved like any other, so every error they cause is in
\* the list returned, which has for each type as many errors as the entries
\* cause whatever the flags; a prim with active = false that an entry names,
\* by its prim path or as a root prim of the file, is spliced in without an
\* error; and the prims returned hold no prim with active = false.
C23_FilterRunsOnceAfterResolution ==
    /\ \A n \in 1..Len(frames) :
          Skeleton(frames[n].prims) = Skeleton(ForestOf(frames[n].currentFilePath))
    /\ Composed =>
          /\ \A prim \in AllPrims(result.prims) : ~Inactive(prim)
          /\ \A type \in {"circular_reference", "missing_file", "invalid_prim_path", "parse_error"} :
                Cardinality(OfType(result.errors, type)) = ErrorsDue(type)
          /\ \A k \in RootEntries :
                /\ Range(ErrorsOfOneEntry(RootEntry(k), rootPath, {rootPath})) \subseteq Range(result.errors)
                /\ Enters(k) =>
                      \A prim \in PrimsNamed(k) : Inactive(prim) =>
                          /\ \E given \in Range(Holder(k).resolvedChildren) :
                                given.name = prim.name /\ Inactive(given)
                          /\ \A error \in Range(result.errors) :
                                (/\ error.type = "invalid_prim_path"
                                 /\ error.filePath = rootPath
                                 /\ RootEntry(k).ref.primPath # Undefined)
                                    => error.message[2] # RootEntry(k).ref.primPath[1]
                                       \/ error.message[4] # RootEntry(k).ref.assetPath

\* C23 witness: a call has returned in which an entry of a prim declared
\* with active = false caused an error that is in the list, although the
\* prim is not among the prims returned, and in which one entry names a
\* prim with active = false by its prim path and another gets one as a root
\* prim of the file.
C23_Witness ==
    /\ Composed
    /\ \E k \in RootEntries :
          /\ Inactive(HolderParsed(k))
          /\ ErrorsOfOneEntry(RootEntry(k), rootPath, {rootPath}) # <<>>
          /\ \A prim \in AllPrims(result.prims) : prim.name # HolderParsed(k).name
    /\ \E k \in RootEntries :
          Enters(k) /\ RootEntry(k).ref.primPath # Undefined /\ \E prim \in PrimsNamed(k) : Inactive(prim)
    /\ \E k \in RootEntries :
          Enters(k) /\ RootEntry(k).ref.primPath = Undefined /\ \E prim \in PrimsNamed(k) : Inactive(prim)

----------------------------------------------------------------------------
(* C24 *)

RECURSIVE Positions(_, _)
\* the positions of the prims of a forest at depth n
Positions(prims, n) ==
    IF n = 1 THEN {<<j>> : j \in 1..Len(prims)}
    ELSE UNION {{<<j>> \o rest : rest \in Positions(prims[j].children, n - 1)} : j \in 1..Len(prims)}
\* the prims among which the prim at a position stands at level n
Siblings(prims, at, n) ==
    IF n = 1 THEN prims ELSE GetPrim(prims, SubSeq(at, 1, n - 1)).children
\* the positions of the prims that have the path: every name on the way
\* down is the segment of its level
PathMatches(prims, segments) ==
    IF segments = <<>> THEN {}
    ELSE {at \in Positions(prims, Len(segments)) :
             \A n \in 1..Len(segments) : Siblings(prims, at, n)[at[n]].name = segments[n]}
\* at every level the prim on the way is the first of its name
FirstOfItsName(prims, segments, at) ==
    \A n \in 1..Len(segments) : \A j \in 1..(at[n] - 1) : Siblings(prims, at, n)[j].name # segments[n]
FindingPrim == call.fn = "findPrimByPath" /\ returned # Undefined

\* C24: findPrimByPath takes at each segment the first prim in list order
\* whose name is the segment and never goes back: it returns a prim exactly
\* when the prim reached by first matches has the whole path, and that prim
\* is the one it returns; a prim that has the path through a prim that is
\* not the first of its name is never returned, and when the first matches
\* do not lead to the whole path the lookup answers not found, whatever
\* later prims of the same names hold.
C24_FirstMatchWithoutBacktracking ==
    FindingPrim =>
        /\ \A at \in PathMatches(call.prims, call.segments) :
              FirstOfItsName(call.prims, call.segments, at)
                  => returned[1] = Some(GetPrim(call.prims, at))
        /\ returned[1] # Undefined =>
              \E at \in PathMatches(call.prims, call.segments) :
                  FirstOfItsName(call.prims, call.segments, at)

\* C24 witness: the lookup has answered not found for a path that a prim of
\* the forest has, through a second root prim of the same name as the first.
C24_Witness ==
    /\ FindingPrim
    /\ returned[1] = Undefined
    /\ \E at \in PathMatches(call.prims, call.segments) :
          at[1] = 2 /\ call.prims[1].name = call.prims[2].name

----------------------------------------------------------------------------
(* C25 *)

\* the field of the result of PrimMesh holding the displayed value of an
\* attribute
DisplayField ==
    [position |-> "primPosition", rotation |-> "primRotation", scale |-> "primScale",
     color |-> "color", radius |-> "radius", size |-> "size", height |-> "height"]

\* what is displayed for an attribute the prim has neither samples nor a
\* static value of
DefaultOf(attr) ==
    IF attr \in {"position", "rotation"} THEN <<Quotient(0, 1), Quotient(0, 1), Quotient(0, 1)>>
    ELSE IF attr = "scale" THEN <<Quotient(1, 1), Quotient(1, 1), Quotient(1, 1)>>
    ELSE IF attr = "color" THEN <<Quotient(3, 5), Quotient(3, 5), Quotient(3, 5)>>
    ELSE Undefined

\* the interpolation of the samples of an attribute at a frame
InterpolationOf(attr, samples, frame) ==
    IF attr \in VectorAttributes THEN interpolateVector3(samples, frame)
    ELSE Some(interpolateValue(samples, frame))

\* the static value of an attribute as a displayed value
StaticOf(attr, static) ==
    IF attr \in VectorAttributes THEN Exact3(static) ELSE Some(Exact(static))

\* the radius, the size and the height the geometry of a displayed prim is
\* built with
GeometryOf(type, shown) ==
    IF type = Some(<<"S","p","h","e","r","e">>) THEN <<OrElse(shown.radius, Quotient(1, 1))>>
    ELSE IF type = Some(<<"C","u","b","e">>)
    THEN <<OrElse(shown.size, Quotient(1, 1)), OrElse(shown.size, Quotient(1, 1)),
           OrElse(shown.size, Quotient(1, 1))>>
    ELSE <<>>

DisplayingPrim == call.fn = "PrimMesh" /\ returned # Undefined

\* C25: for each of position, rotation, scale, color, radius, size and
\* height, the value PrimMesh displays a prim with is the interpolation of
\* the attribute's time samples at the current frame whenever the prim has
\* a time-samples map for it (an empty one included), whatever its static
\* value is, and the static value, or the default when there is none,
\* at every frame when it has no map; the geometry is built with the
\* displayed radius, size and height.
C25_TimeSamplesTakePrecedence ==
    DisplayingPrim =>
        /\ \A attr \in VectorAttributes \cup ScalarAttributes :
              /\ call.prim[SamplesField[attr]] # Undefined =>
                    /\ returned[1][DisplayField[attr]] =
                          InterpolationOf(attr, call.prim[SamplesField[attr]][1], call.currentFrame)
                    /\ returned[1][DisplayField[attr]] =
                          PrimMesh([call.prim EXCEPT ![attr] = Undefined],
                                   call.currentFrame)[DisplayField[attr]]
              /\ call.prim[SamplesField[attr]] = Undefined =>
                    /\ returned[1][DisplayField[attr]] =
                          IF call.prim[attr] # Undefined
                          THEN StaticOf(attr, call.prim[attr][1])
                          ELSE DefaultOf(attr)
                    /\ \A frame \in DisplayFrames :
                          PrimMesh(call.prim, frame)[DisplayField[attr]] =
                              returned[1][DisplayField[attr]]
        /\ returned[1].geometry = GeometryOf(call.prim.type, returned[1])

\* C25 witness: a Sphere with a static value and two samples of every
\* attribute is displayed at frame 1, between its samples, with values that
\* are not its static ones; its radius is 19/8, not the static 2.
C25_Witness ==
    /\ DisplayingPrim
    /\ \A attr \in VectorAttributes \cup ScalarAttributes :
          /\ call.prim[attr] # Undefined
          /\ call.prim[SamplesField[attr]] # Undefined
          /\ Len(call.prim[SamplesField[attr]][1]) = 2
          /\ returned[1][DisplayField[attr]] # StaticOf(attr, call.prim[attr][1])
    /\ call.currentFrame = Quotient(1, 1)
    /\ returned[1].radius = Some(Quotient(19, 8))
    /\ call.prim.type = Some(<<"S","p","h","e","r","e">>)
    /\ returned[1].geometry = <<Quotient(19, 8)>>

----------------------------------------------------------------------------
(* C26 *)

\* the asset written first after `references =` and after `payload =` in
\* each of the metadata clauses, as the one-entry array it is kept in; no
\* entry where no asset is written right after the field
FirstReference ==
    <<<<[assetPath |-> <<".","/","a",".","u","s","d","a">>, primPath |-> Undefined]>>,
      <<[assetPath |-> <<".","/","a",".","u","s","d","a">>, primPath |-> Undefined]>>,
      <<[assetPath |-> <<".","/","a",".","u","s","d","a">>, primPath |-> Some(<<"/","P">>)]>>,
      <<[assetPath |-> <<".","/","a",".","u","s","d","a">>, primPath |-> Undefined]>>,
      <<>>, <<>>, <<>>, <<>>>>
FirstPayload ==
    <<<<>>, <<>>,
      <<[assetPath |-> <<".","/","b",".","u","s","d","a">>, primPath |-> Undefined]>>,
      <<[assetPath |-> <<".","/","b",".","u","s","d","a">>, primPath |-> Some(<<"/","Q">>)]>>,
      <<>>,
      <<[assetPath |-> <<".","/","a",".","u","s","d","a">>, primPath |-> Undefined]>>,
      <<>>,
      <<[assetPath |-> <<".","/","b",".","u","s","d","a">>, primPath |-> Undefined]>>>>
\* the items declared with a metadata clause
ClauseItems == {k \in 1..Len(call.layout) : "clause" \in DOMAIN call.layout[k]}
\* the entries the resolution takes up for the prim at a position
EntriesAt(prims, at) ==
    {j \in 1..Len(EntriesOfPrims(prims, <<>>, 1)) : EntriesOfPrims(prims, <<>>, 1)[j].at = at}
ReturnedUsda == call.fn = "parseUsda" /\ returned # Undefined

\* C26: every prim of the forest parseUsda is building and of the forest
\* it returns has at most one reference entry and at most one payload
\* entry, and no resolvedChildren; the entry of a field is the asset
\* written first after `references =` (`payload =`) in the metadata of the
\* declaration, whatever assets follow it; and the resolution takes up at
\* most two entries for a prim of the forest.
C26_AtMostOneReferenceAndOnePayload ==
    call.fn = "parseUsda" =>
        /\ \A prim \in Flat(parser.prims) :
              /\ Len(prim.references) <= 1
              /\ Len(prim.payloads) <= 1
              /\ prim.resolvedChildren = <<>>
        /\ \A n \in 1..3 : \A at \in Positions(parser.prims, n) :
              Cardinality(EntriesAt(parser.prims, at)) <= 2
        /\ ReturnedUsda =>
              /\ returned[1] = parser.prims
              /\ \A k \in ClauseItems :
                    /\ Named(returned[1], NameOf(k)).references = FirstReference[call.layout[k].clause]
                    /\ Named(returned[1], NameOf(k)).payloads = FirstPayload[call.layout[k].clause]

\* C26 witness: parseUsda has returned a prim declared with `references =`
\* written twice and a payload with a prim path, holding one entry of each,
\* with a child declared over three lines with two assets after
\* `references =`, holding the first of them.
C26_Witness ==
    /\ ReturnedUsda
    /\ Len(call.layout) = 2
    /\ ClauseItems = {1, 2}
    /\ call.layout[1].clause = 4
    /\ call.layout[1].kind = "multi"
    /\ call.layout[2].clause = 2
    /\ Len(returned[1]) = 1
    /\ Len(returned[1][1].references) = 1
    /\ returned[1][1].payloads[1].primPath = Some(<<"/","Q">>)
    /\ returned[1][1].children[1].references[1].assetPath = <<".","/","a",".","u","s","d","a">>
    /\ Cardinality(EntriesAt(returned[1], <<1>>)) = 2

----------------------------------------------------------------------------
(* C27 *)

\* what stands between the slashes of an absolute path after its first one
SegmentsOf(path) == Split(Tail(path), "/")
\* an absolute path with no empty, '.' or '..' segment; the root is one
IsCanonical(path) ==
    /\ path # <<>>
    /\ path[1] = "/"
    /\ path # <<"/">> => \A k \in 1..Len(SegmentsOf(path)) : SegmentsOf(path)[k] \notin {<<>>, <<".">>, <<".",".">>}
RECURSIVE DoubledSlashes(_)
\* the path with every '/' written twice
DoubledSlashes(path) ==
    IF path = <<>> THEN <<>>
    ELSE (IF Head(path) = "/" THEN <<"/","/">> ELSE <<Head(path)>>) \o DoubledSlashes(Tail(path))
\* other spellings of a relative path
Spellings(path) == {<<".","/">> \o path, <<"x","/",".",".","/">> \o path, <<"x","/",".","/",".",".","/">> \o path, DoubledSlashes(path)}
IsRelative(path) == path = <<>> \/ path[1] # "/"

\* C27: for a relative asset path resolveRelativePath returns a canonical
\* absolute path: it starts with '/' and has no empty, '.' or '..' segment;
\* a '..' met at the root is ignored; resolving what it returned against any
\* base path returns it unchanged; and every other spelling of the asset
\* path resolves to the same path.
C27_RelativePathsResolveToCanonicalKeys ==
    ResolvingPath /\ IsRelative(call.relativePath) =>
        /\ IsCanonical(returned[1])
        /\ DirectoryOf(call.basePath) = <<"/">> =>
              /\ resolveRelativePath(call.basePath, <<".",".","/">> \o call.relativePath) = returned[1]
              /\ resolveRelativePath(call.basePath, <<".",".","/",".",".","/">> \o call.relativePath) = returned[1]
        /\ \A base \in BasePaths : resolveRelativePath(base, returned[1]) = returned[1]
        /\ \A spelling \in Spellings(call.relativePath) :
              resolveRelativePath(call.basePath, spelling) = returned[1]

\* C27 witness: an asset path that climbs above the root, with an empty
\* and a '.' segment besides, has resolved from a base path in a
\* directory to a file at the root.
C27_Witness ==
    /\ ResolvingPath
    /\ call.basePath = ModelPath
    /\ call.relativePath \in {<<".",".","/",".",".","/","b",".","u","s","d","a">>, <<".",".","/",".","/","b",".","u","s","d","a">>, <<".",".","/","/","b",".","u","s","d","a">>}
    /\ returned[1] = <<"/","b",".","u","s","d","a">>

----------------------------------------------------------------------------
(* C28, C29 *)

NoDuplicate(paths) == \A j, k \in 1..Len(paths) : j # k => paths[j] # paths[k]
ActiveIsOpen(s) == s.activeFilePath = Undefined \/ IncludesPath(s.openFilePaths, s.activeFilePath[1])

\* C28: after any sequence of createFile, openFile, closeFile, deleteFile
\* and renameFile every path in openFilePaths is a key of files,
\* openFilePaths holds no path twice, and activeFilePath is null or one of
\* openFilePaths.
C28_TabsConsistentWithFiles ==
    /\ \A j \in 1..Len(store.openFilePaths) : store.openFilePaths[j] \in DOMAIN store.files
    /\ NoDuplicate(store.openFilePaths)
    /\ ActiveIsOpen(store)

\* C29: whatever calls were made since the last render, closeFile and
\* deleteFile called with the active tab make the last of the tabs that
\* remain open active, or null when none remains, and called with another
\* path leave activeFilePath as it is; the active path is then never a tab
\* that is closed.
C29_ClosingActivatesTheLastOpenTab ==
    \A path \in PathArguments : \A after \in {closeFile(store, path), deleteFile(store, path)} :
        /\ after.activeFilePath =
              IF store.activeFilePath = Some(path) THEN LastOrNull(after.openFilePaths)
              ELSE store.activeFilePath
        /\ ActiveIsOpen(store) => ActiveIsOpen(after)

----------------------------------------------------------------------------
(* C30 *)

\* C30: once a recording is started on a scene with animation the playback
\* runs from startFrame, and onRecordingComplete is eventually invoked,
\* once, on the tick on which the frame first passes endFrame and with
\* endFrame as the last frame reported, whatever the user does on the
\* timeline and in the editor meanwhile.
C30_RecordingCompletes ==
    /\ [][~player.isRecording /\ player'.isRecording =>
             /\ player'.isPlaying
             /\ player'.currentFrame = player'.content.startFrame
             /\ player'.frameRef = player'.content.startFrame]_vars
    /\ [][player'.completions # player.completions /\ player.isRecording =>
             /\ player'.completions = 1
             /\ player.isPlaying
             /\ player'.currentFrame = player.content.endFrame
             /\ ~player'.isRecording]_vars
    /\ (player.isRecording ~> player.completions = 1)
=============================================================================
